---- MODULE Spec2Model ----
(***************************************************************************)
(* Model of the ServeappNYC data layer: the `appwrite` gateway object      *)
(* (src/unnamed/part_000), the orchestration functions of AnimatedRoutes   *)
(* (src/src/App.tsx) and Dashboard.handleSaveServe                         *)
(* (src/src/pages/Dashboard.tsx).                                          *)
(*                                                                         *)
(* The remote document store is the five collections below; every remote   *)
(* request either succeeds or throws (a fault).  An asynchronous function  *)
(* is one action per await point, so that the order of its remote calls    *)
(* is visible.                                                             *)
(***************************************************************************)
EXTENDS Integers, Sequences, FiniteSets, TLC

VARIABLES
    clients,      \* remote Clients collection: sequence of documents
    cases,        \* remote Cases collection: sequence of documents
    serves,       \* remote Serve Attempts collection: sequence of documents
    documents,    \* remote Documents collection: sequence of documents
    files,        \* storage bucket: set of file ids
    localServes,  \* localStorage["serve-tracker-serves"]: sequence of records
    events,       \* number of "serves-updated" events dispatched on window
    stateClients, \* React state `clients` of AnimatedRoutes: sequence of records
    localClients, \* localStorage["serve-tracker-clients"]: sequence of records
    loads,        \* answers of loadDataFromAppwrite not yet delivered
    recentServes, \* React state `recentServes` of Dashboard: sequence of records
    timers,       \* pending setTimeout(loadAppwriteData, 500) callbacks
    outbox,       \* executions requested of the email function
    pc,           \* position of the running operation
    op,           \* the operation the user or test started
    arg,          \* arguments and locals of the running operation
    queue,        \* items the running for-loop still has to visit
    calls,        \* log of the gateway calls and remote writes issued
    result,       \* what the started operation returned or threw
    faults        \* remote requests that were made to fail

remote == <<clients, cases, serves, documents, files>>
local == <<localServes, events, stateClients, localClients, loads, recentServes,
          timers, outbox>>
ctl == <<pc, op, arg, queue, calls, result, faults>>
vars == <<clients, cases, serves, documents, files, localServes, events,
          stateClients, localClients, loads, recentServes, timers, outbox, pc,
          op, arg, queue, calls, result, faults>>

---------------------------------------------------------------------------
(* Bounds of the model.                                                    *)

MaxCases == 2
MaxServes == 3
MaxDocs == 1
MaxFaults == 1
MaxListed == 22
MaxSynced == 101
MaxOps == 3
MaxLoads == 2

---------------------------------------------------------------------------
(* JavaScript values.  A string whose characters matter (a file id) is a   *)
(* sequence of one-character strings; every other string is a TLA+ string. *)

Undefined == "undefined"
Null == "null"
\* `undefined` where a character sequence is expected: no character is the
\* nine-letter token, so no real string equals it.
UndefinedStr == <<Undefined>>

\* o.k : a missing property reads as undefined
Get(o, k) == IF k \in DOMAIN o THEN o[k] ELSE Undefined
GetStr(o, k) == IF k \in DOMAIN o THEN o[k] ELSE UndefinedStr

\* !v for the strings, null and undefined of the model
Falsy(v) == v \in {Undefined, Null, ""}
FalsyStr(s) == s = <<>> \/ s = UndefinedStr
\* a || b
Or(a, b) == IF Falsy(a) THEN b ELSE a
OrStr(a, b) == IF FalsyStr(a) THEN b ELSE a
OrNum(n, d) == IF n = 0 THEN d ELSE n

\* new Date() when no timestamp is stored: later than every stored one
Now == 1000

Id(doc) == doc["$id"]

Range(s) == {s[i] : i \in DOMAIN s}

---------------------------------------------------------------------------
(* Documents of the remote store.                                          *)

ClientIds == {"c1", "c2"}

ClientDoc(id, email) ==
    ("$id" :> id) @@ [name |-> "Name " \o id, email |-> email]

CaseDoc(id, cid) ==
    ("$id" :> id) @@ [client_id |-> cid]

ServeDoc(id, cid, ts, img) ==
    ("$id" :> id) @@
    [client_id |-> cid, client_name |-> "Name " \o cid,
     case_number |-> "n0", case_name |-> "k0", coordinates |-> "1,2",
     notes |-> "t0", status |-> "failed", timestamp |-> ts,
     attempt_number |-> 1, image_data |-> img, address |-> "addr"]

DocumentDoc(id, cid, path) ==
    ("$id" :> id) @@ [client_id |-> cid, file_path |-> path]

\* A collection is the sequence of its documents in creation order.
Has(coll, id) == \E i \in DOMAIN coll : Id(coll[i]) = id
Without(coll, id) == SelectSeq(coll, LAMBDA d : Id(d) # id)
Doc(coll, id) == coll[CHOOSE i \in DOMAIN coll : Id(coll[i]) = id]

\* listDocuments(..., [Query.equal('client_id', clientId)])
OfClient(coll, clientId) == SelectSeq(coll, LAMBDA d : d.client_id = clientId)

\* Query.orderDesc('timestamp') and Array.prototype.sort by descending
\* timestamp: the place of s[i] is one more than the number of elements that
\* go before it (a later timestamp, or the same one and an earlier index)
OrderDesc(s) ==
    LET n == Len(s)
        Before(j, i) ==
            \/ s[j].timestamp > s[i].timestamp
            \/ s[j].timestamp = s[i].timestamp /\ j < i
        place == SubSeq([i \in 1..n |->
                            1 + Cardinality({j \in 1..n : Before(j, i)})], 1, n)
        from == SubSeq([p \in 1..n |-> CHOOSE i \in 1..n : place[i] = p], 1, n)
    IN SubSeq([p \in 1..n |-> s[from[p]]], 1, n)

\* Query.limit(limit), Query.offset(offset)
Page(s, limit, offset) ==
    SubSeq(s, offset + 1, IF offset + limit < Len(s) THEN offset + limit ELSE Len(s))

---------------------------------------------------------------------------
(* Faults.  A remote request may throw while fewer than MaxFaults requests *)
(* have been made to throw; `faults` records which ones were.              *)

FaultChoice == IF Cardinality(faults) < MaxFaults THEN BOOLEAN ELSE {FALSE}
Fault(fail, site) == IF fail THEN faults \cup {site} ELSE faults

Pending == [status |-> "pending", value |-> Undefined]
Returned(v) == [status |-> "returned", value |-> v]
Thrown(e) == [status |-> "thrown", value |-> e]

Call(fn, id) == [fn |-> fn, id |-> id]

---------------------------------------------------------------------------
(* Gateway reads.                                                          *)

\* the record getServeAttempts, getClientServeAttempts and
\* syncAppwriteServesToLocal build from a stored document
FormatServe(doc, img) ==
    [id |-> Id(doc),
     clientId |-> Or(Get(doc, "client_id"), "unknown"),
     clientName |-> Or(Get(doc, "client_name"), "Unknown Client"),
     caseNumber |-> Or(Get(doc, "case_number"), "Unknown"),
     caseName |-> Or(Get(doc, "case_name"), "Unknown Case"),
     coordinates |-> Or(Get(doc, "coordinates"), Null),
     notes |-> Or(Get(doc, "notes"), ""),
     status |-> Or(Get(doc, "status"), "unknown"),
     timestamp |-> OrNum(doc.timestamp, Now),
     attemptNumber |-> OrNum(doc.attempt_number, 1),
     imageData |-> img,
     address |-> Or(Get(doc, "address"), "")]

ListImage_anyPage(doc, offset) == Or(Get(doc, "image_data"), Null)

\* imageData: offset === 0 ? (doc.image_data || null) : null
ListImage(doc, offset) ==
    IF offset = 0 THEN Or(Get(doc, "image_data"), Null) ELSE Null

getServeAttempts(limit, offset, fail) ==
    IF fail THEN <<>>
    ELSE LET page == Page(OrderDesc(serves), limit, offset)
         IN [i \in DOMAIN page |-> FormatServe(page[i], ListImage(page[i], offset))]

getClientServeAttempts(clientId, fail) ==
    IF fail THEN <<>>
    ELSE LET found == OfClient(serves, clientId)
             mapped == [i \in DOMAIN found |->
                           FormatServe(found[i], Or(Get(found[i], "image_data"), Null))]
         IN OrderDesc(mapped)

getClientCases(clientId, fail) ==
    IF fail THEN <<>> ELSE OfClient(cases, clientId)

\* called without a case number by both deleteClient functions
getClientDocuments(clientId, fail) ==
    IF fail THEN <<>> ELSE OfClient(documents, clientId)

---------------------------------------------------------------------------
(* Gateway deletes.  Each yields the collections after the call and what   *)
(* the call returned.  The store throws on a missing document or file.     *)

deleteClientCase(caseId, fail) ==
    IF fail \/ ~Has(cases, caseId)
    THEN [cases |-> cases, ret |-> "throw"]
    ELSE [cases |-> Without(cases, caseId), ret |-> "true"]

deleteServeAttempt(serveId, fail) ==
    IF Falsy(serveId)
    THEN [serves |-> serves, ret |-> "false", request |-> FALSE]
    ELSE IF fail \/ ~Has(serves, serveId)
         THEN [serves |-> serves, ret |-> "throw", request |-> TRUE]
         ELSE [serves |-> Without(serves, serveId), ret |-> "true", request |-> TRUE]

Lower == {"a", "b", "c", "d", "e", "f", "g", "h", "i", "j", "k", "l", "m",
          "n", "o", "p", "q", "r", "s", "t", "u", "v", "w", "x", "y", "z"}
Upper == {"A", "B", "C", "D", "E", "F", "G", "H", "I", "J", "K", "L", "M",
          "N", "O", "P", "Q", "R", "S", "T", "U", "V", "W", "X", "Y", "Z"}
Digit == {"0", "1", "2", "3", "4", "5", "6", "7", "8", "9"}
WordChars == Lower \cup Upper \cup Digit \cup {"_"}
FileIdMaxLen == 36

\* /^[a-zA-Z0-9_]{1,36}$/.test(fileId)
FileIdPattern(fileId) ==
    /\ Len(fileId) >= 1
    /\ Len(fileId) <= FileIdMaxLen
    /\ \A i \in DOMAIN fileId : fileId[i] \in WordChars

\* fileId.startsWith('_')
StartsWithUnderscore(fileId) == Len(fileId) >= 1 /\ fileId[1] = "_"

\* the file deletion is skipped for a file id that fails the check
SkipsFile(fileId) ==
    ~FalsyStr(fileId) /\ (~FileIdPattern(fileId) \/ StartsWithUnderscore(fileId))

DeletesFile(fileId) == ~SkipsFile(fileId) /\ ~FalsyStr(fileId)

deleteClientDocument(docId, fileId, failFile, failDoc) ==
    LET wantFile == DeletesFile(fileId)
        fileThrows == wantFile /\ (failFile \/ fileId \notin files)
        files1 == IF wantFile /\ ~fileThrows THEN files \ {fileId} ELSE files
        docThrows == failDoc \/ ~Has(documents, docId)
    IN IF fileThrows
       THEN [files |-> files, documents |-> documents, ret |-> "throw",
             fileRequest |-> TRUE, docRequest |-> FALSE]
       ELSE IF docThrows
            THEN [files |-> files1, documents |-> documents, ret |-> "throw",
                  fileRequest |-> wantFile, docRequest |-> TRUE]
            ELSE [files |-> files1, documents |-> Without(documents, docId),
                  ret |-> "true", fileRequest |-> wantFile, docRequest |-> TRUE]

\* which of deleteClientDocument's two requests was made to throw
DocumentFault(failFile, docId) ==
    IF failFile THEN <<"storage.deleteFile", docId>>
    ELSE <<"deleteDocument:documents", docId>>

---------------------------------------------------------------------------
(* appwrite.deleteClient(clientId): one action per awaited call.           *)

\* entry: const cases = await this.getClientCases(clientId)
gw_enter(clientId, caller, fail) ==
    /\ arg' = [clientId |-> clientId, caller |-> caller]
    /\ queue' = getClientCases(clientId, fail)
    /\ faults' = Fault(fail, <<"getClientCases", clientId>>)
    /\ calls' = Append(calls, Call("appwrite.deleteClient", clientId))
    /\ pc' = "gw_cases"

appwrite_deleteClient(clientId) ==
    /\ pc = "idle"
    /\ \E fail \in FaultChoice : gw_enter(clientId, "none", fail)
    /\ op' = "appwrite.deleteClient"
    /\ UNCHANGED <<remote, local, result>>

\* for (const caseDoc of cases) { try { await this.deleteClientCase(caseDoc.$id) } catch {} }
appwrite_deleteClient_case ==
    /\ pc = "gw_cases"
    /\ queue # <<>>
    /\ \E fail \in FaultChoice :
          LET caseId == Get(Head(queue), "$id")
              out == deleteClientCase(caseId, fail)
          IN /\ cases' = out.cases
             /\ faults' = Fault(fail, <<"deleteClientCase", caseId>>)
             /\ calls' = Append(calls, Call("deleteClientCase", caseId))
    /\ queue' = Tail(queue)
    /\ UNCHANGED <<clients, serves, documents, files, local, pc, op, arg, result>>

\* const serves = await this.getClientServeAttempts(clientId)
appwrite_deleteClient_listServes ==
    /\ pc = "gw_cases"
    /\ queue = <<>>
    /\ \E fail \in FaultChoice :
          /\ queue' = getClientServeAttempts(arg.clientId, fail)
          /\ faults' = Fault(fail, <<"getClientServeAttempts", arg.clientId>>)
    /\ pc' = "gw_serves"
    /\ UNCHANGED <<remote, local, op, arg, calls, result>>

\* the argument deleteClient passes to deleteServeAttempt for a listed serve
gw_serveArg(serve) == Get(serve, "$id")

\* for (const serve of serves) { try { await this.deleteServeAttempt(serve.$id) } catch {} }
appwrite_deleteClient_serve ==
    /\ pc = "gw_serves"
    /\ queue # <<>>
    /\ \E fail \in FaultChoice :
          LET serveId == gw_serveArg(Head(queue))
              out == deleteServeAttempt(serveId, fail)
          IN /\ serves' = out.serves
             /\ faults' = Fault(fail /\ out.request, <<"deleteServeAttempt", serveId>>)
             /\ calls' = Append(calls, Call("deleteServeAttempt", serveId))
    /\ queue' = Tail(queue)
    /\ UNCHANGED <<clients, cases, documents, files, local, pc, op, arg, result>>

\* const documents = await this.getClientDocuments(clientId)
appwrite_deleteClient_listDocuments ==
    /\ pc = "gw_serves"
    /\ queue = <<>>
    /\ \E fail \in FaultChoice :
          /\ queue' = getClientDocuments(arg.clientId, fail)
          /\ faults' = Fault(fail, <<"getClientDocuments", arg.clientId>>)
    /\ pc' = "gw_documents"
    /\ UNCHANGED <<remote, local, op, arg, calls, result>>

\* for (const doc of documents) { try { await this.deleteClientDocument(
\*     doc.$id, doc.file_path || doc.filePath) } catch {} }
appwrite_deleteClient_document ==
    /\ pc = "gw_documents"
    /\ queue # <<>>
    /\ \E failFile \in FaultChoice : \E failDoc \in FaultChoice :
          LET doc == Head(queue)
              docId == Get(doc, "$id")
              fileId == OrStr(GetStr(doc, "file_path"), GetStr(doc, "filePath"))
              out == deleteClientDocument(docId, fileId, failFile, failDoc)
          IN /\ ~(failFile /\ failDoc)
             /\ failFile => out.fileRequest
             /\ failDoc => out.docRequest
             /\ files' = out.files
             /\ documents' = out.documents
             /\ faults' = Fault(failFile \/ failDoc, DocumentFault(failFile, docId))
             /\ calls' = Append(calls, Call("deleteClientDocument", docId))
    /\ queue' = Tail(queue)
    /\ UNCHANGED <<clients, cases, serves, local, pc, op, arg, result>>

\* the client record is reached when the last for-loop has run out
gw_cascadeDone_early == pc = "gw_documents"
gw_cascadeDone == pc = "gw_documents" /\ queue = <<>>

\* await databases.deleteDocument(DATABASE_ID, CLIENTS_COLLECTION_ID, clientId)
\* return true, or the catch rethrows
appwrite_deleteClient_record ==
    /\ gw_cascadeDone
    /\ \E fail \in FaultChoice :
          LET throws == fail \/ ~Has(clients, arg.clientId)
          IN /\ clients' = IF throws THEN clients ELSE Without(clients, arg.clientId)
             /\ faults' = Fault(fail, <<"deleteDocument", arg.clientId>>)
             /\ calls' = Append(calls, Call("deleteDocument:clients", arg.clientId))
             /\ pc' = "done"
             /\ IF arg.caller = "none"
                THEN /\ result' = IF throws THEN Thrown("error") ELSE Returned("true")
                     /\ stateClients' = stateClients
                ELSE \* back in App.deleteClient: setClients(prev => prev.filter(...));
                     \* return true, or its catch returns false
                     /\ result' = IF throws THEN Returned("false") ELSE Returned("true")
                     /\ stateClients' =
                           IF throws THEN stateClients
                           ELSE SelectSeq(stateClients, LAMBDA c : c.id # arg.clientId)
    \* useEffect(() => localStorage.setItem("serve-tracker-clients", ...), [clients])
    /\ localClients' = stateClients'
    /\ UNCHANGED <<cases, serves, documents, files, localServes, events, loads,
                   recentServes, timers, outbox, op, arg, queue>>

---------------------------------------------------------------------------
(* AnimatedRoutes.deleteClient(clientId) of App.tsx.  Its single try/catch *)
(* turns any throw into `return false`.                                    *)

DefaultLimit == 50

\* const serveAttempts = await appwrite.getServeAttempts();
\* const clientServes = serveAttempts.filter(serve => serve.clientId === clientId)
App_deleteClient(clientId) ==
    /\ pc = "idle"
    /\ \E fail \in FaultChoice :
          /\ queue' = SelectSeq(getServeAttempts(DefaultLimit, 0, fail),
                                LAMBDA serve : serve.clientId = clientId)
          /\ faults' = Fault(fail, <<"getServeAttempts", clientId>>)
    /\ op' = "App.deleteClient"
    /\ arg' = [clientId |-> clientId, caller |-> "App"]
    /\ pc' = "app_serves"
    /\ UNCHANGED <<remote, local, calls, result>>

\* for (const serve of clientServes) { await appwrite.deleteServeAttempt(serve.id) }
App_deleteClient_serve ==
    /\ pc = "app_serves"
    /\ queue # <<>>
    /\ \E fail \in FaultChoice :
          LET serveId == Get(Head(queue), "id")
              out == deleteServeAttempt(serveId, fail)
          IN /\ serves' = out.serves
             /\ faults' = Fault(fail /\ out.request, <<"deleteServeAttempt", serveId>>)
             /\ calls' = Append(calls, Call("deleteServeAttempt", serveId))
             /\ IF out.ret = "throw"
                THEN /\ pc' = "done"
                     /\ result' = Returned("false")
                     /\ queue' = <<>>
                ELSE /\ pc' = pc
                     /\ result' = result
                     /\ queue' = Tail(queue)
    /\ UNCHANGED <<clients, cases, documents, files, local, op, arg>>

\* const documents = await appwrite.getClientDocuments(clientId)
App_deleteClient_listDocuments ==
    /\ pc = "app_serves"
    /\ queue = <<>>
    /\ \E fail \in FaultChoice :
          /\ queue' = getClientDocuments(arg.clientId, fail)
          /\ faults' = Fault(fail, <<"getClientDocuments", arg.clientId>>)
    /\ pc' = "app_documents"
    /\ UNCHANGED <<remote, local, op, arg, calls, result>>

\* for (const doc of documents) { await appwrite.deleteClientDocument(doc.$id, doc.file_path) }
App_deleteClient_document ==
    /\ pc = "app_documents"
    /\ queue # <<>>
    /\ \E failFile \in FaultChoice : \E failDoc \in FaultChoice :
          LET doc == Head(queue)
              docId == Get(doc, "$id")
              out == deleteClientDocument(docId, GetStr(doc, "file_path"),
                                          failFile, failDoc)
          IN /\ ~(failFile /\ failDoc)
             /\ failFile => out.fileRequest
             /\ failDoc => out.docRequest
             /\ files' = out.files
             /\ documents' = out.documents
             /\ faults' = Fault(failFile \/ failDoc, DocumentFault(failFile, docId))
             /\ calls' = Append(calls, Call("deleteClientDocument", docId))
             /\ IF out.ret = "throw"
                THEN /\ pc' = "done"
                     /\ result' = Returned("false")
                     /\ queue' = <<>>
                ELSE /\ pc' = pc
                     /\ result' = result
                     /\ queue' = Tail(queue)
    /\ UNCHANGED <<clients, cases, serves, local, op, arg>>

\* await appwrite.deleteClient(clientId)
App_deleteClient_gateway ==
    /\ pc = "app_documents"
    /\ queue = <<>>
    /\ \E fail \in FaultChoice : gw_enter(arg.clientId, "App", fail)
    /\ UNCHANGED <<remote, local, op, result>>

---------------------------------------------------------------------------
(* Client deletion: the store holds two clients; the first n cases, serve  *)
(* attempts and documents belong to c1, the others to c2.                  *)

Nat2Str(n) == <<"0", "1", "2", "3", "4", "5", "6", "7", "8", "9">>[n + 1]

Owner(i, n) == IF i <= n THEN "c1" ELSE "c2"

\* file references a stored document may carry
ValidFile(i) == <<"f", Nat2Str(i)>>
DocPaths(i) == {ValidFile(i), <<"_", "f">>, <<>>}

InitDelete ==
    /\ clients = <<ClientDoc("c1", "a@x"), ClientDoc("c2", "b@x")>>
    /\ \E n \in 0..MaxCases :
          cases = [i \in 1..MaxCases |-> CaseDoc("k" \o Nat2Str(i), Owner(i, n))]
    /\ \E n \in 0..MaxServes :
          serves = [i \in 1..MaxServes |->
                       ServeDoc("s" \o Nat2Str(i), Owner(i, n), i, "")]
    /\ \E n \in 0..MaxDocs : \E paths \in [1..MaxDocs -> UNION {DocPaths(i) : i \in 1..MaxDocs}] :
          /\ \A i \in 1..MaxDocs : paths[i] \in DocPaths(i)
          /\ documents = [i \in 1..MaxDocs |->
                             DocumentDoc("d" \o Nat2Str(i), Owner(i, n), paths[i])]
    /\ files = {ValidFile(i) : i \in 1..MaxDocs}
    /\ localServes = <<>>
    /\ events = 0
    /\ stateClients = [i \in DOMAIN clients |-> [id |-> Id(clients[i])]]
    /\ localClients = stateClients
    /\ loads = <<>>
    /\ recentServes = <<>>
    /\ timers = 0
    /\ outbox = <<>>
    /\ pc = "idle"
    /\ op = "none"
    /\ arg = [clientId |-> "none", caller |-> "none"]
    /\ queue = <<>>
    /\ calls = <<>>
    /\ result = Pending
    /\ faults = {}

NextDelete ==
    \/ \E c \in {"c1"} : appwrite_deleteClient(c)
    \/ appwrite_deleteClient_case
    \/ appwrite_deleteClient_listServes
    \/ appwrite_deleteClient_serve
    \/ appwrite_deleteClient_listDocuments
    \/ appwrite_deleteClient_document
    \/ appwrite_deleteClient_record
    \/ \E c \in {"c1"} : App_deleteClient(c)
    \/ App_deleteClient_serve
    \/ App_deleteClient_listDocuments
    \/ App_deleteClient_document
    \/ App_deleteClient_gateway

SpecDelete == InitDelete /\ [][NextDelete]_vars

---------------------------------------------------------------------------
(* Claims about client deletion (SpecDelete).                              *)

Target == "c1"
Finished(o) == pc = "done" /\ op = o
Remaining(coll) == {Id(d) : d \in Range(OfClient(coll, Target))}
FailedDeletes(fns) == {f[2] : f \in {g \in faults : g[1] \in fns}}
DocumentFaults == {"storage.deleteFile", "deleteDocument:documents"}
OnlyFaults(fns) == \A f \in faults : f[1] \in fns

\* the calls appwrite.deleteClient has issued: the log after its entry
GatewayCalls ==
    LET S == {i \in DOMAIN calls : calls[i].fn = "appwrite.deleteClient"}
    IN IF S = {} THEN <<>>
       ELSE SubSeq(calls, (CHOOSE i \in S : TRUE) + 1, Len(calls))
CallsOf(fn) == SelectSeq(GatewayCalls, LAMBDA c : c.fn = fn)
Rank(fn) ==
    CASE fn = "deleteClientCase" -> 1
      [] fn = "deleteServeAttempt" -> 2
      [] fn = "deleteClientDocument" -> 3
      [] fn = "deleteDocument:clients" -> 4

\* C1: when appwrite.deleteClient(c) returns and at most one request failed,
\* a Serve-Attempt deletion, then no Case and no Document of c is left in the
\* store, the only Serve Attempt of c left is the one whose deletion failed,
\* and the Client record is gone.
C1_CascadeDeletesEverything ==
    (/\ Finished("appwrite.deleteClient")
     /\ result = Returned("true")
     /\ Cardinality(faults) <= 1
     /\ OnlyFaults({"deleteServeAttempt"}))
    => /\ Remaining(cases) = {}
       /\ Remaining(documents) = {}
       /\ Remaining(serves) \subseteq FailedDeletes({"deleteServeAttempt"})
       /\ ~Has(clients, Target)

\* C8: appwrite.deleteClient issues its sub-deletions in the order cases, serve
\* attempts, documents, client record; and once the delete of the client record
\* has been issued, every Case, Serve Attempt and Document of the client that
\* its listings returned has had its sub-deletion called.
C8_CascadeOrder ==
    /\ \A i, j \in DOMAIN GatewayCalls :
          i < j => Rank(GatewayCalls[i].fn) <= Rank(GatewayCalls[j].fn)
    /\ Len(CallsOf("deleteDocument:clients")) <= 1
    /\ (CallsOf("deleteDocument:clients") # <<>>
        /\ OnlyFaults({"deleteClientCase", "deleteServeAttempt", "deleteDocument"}
                      \cup DocumentFaults))
       => /\ \A id \in Remaining(cases) :
                \E i \in DOMAIN GatewayCalls :
                   GatewayCalls[i] = Call("deleteClientCase", id)
          /\ \A id \in Remaining(documents) :
                \E i \in DOMAIN GatewayCalls :
                   GatewayCalls[i] = Call("deleteClientDocument", id)
          /\ Len(CallsOf("deleteServeAttempt")) >= Cardinality(Remaining(serves))

\* a cascade over at least one item of each kind, one of whose deletions failed
C8_Witness ==
    /\ Finished("appwrite.deleteClient")
    /\ CallsOf("deleteClientCase") # <<>>
    /\ CallsOf("deleteServeAttempt") # <<>>
    /\ CallsOf("deleteClientDocument") # <<>>
    /\ CallsOf("deleteDocument:clients") # <<>>
    /\ \E f \in faults : f[1] \in {"deleteClientCase"} \cup DocumentFaults

\* C9: when App.deleteClient(c) has returned and the only request that failed
\* was the deletion of one Serve Attempt or one Document, every other Serve
\* Attempt and Document of c and the Client record of c have been deleted.
C9_AppCascadeContinues ==
    (/\ Finished("App.deleteClient")
     /\ Cardinality(faults) = 1
     /\ OnlyFaults({"deleteServeAttempt"} \cup DocumentFaults))
    => /\ Remaining(serves) \subseteq FailedDeletes({"deleteServeAttempt"})
       /\ Remaining(documents) \subseteq FailedDeletes(DocumentFaults)
       /\ ~Has(clients, Target)

---------------------------------------------------------------------------
(* appwrite.getServeAttempts(limit = 50, offset = 0) called on its own.    *)

ImageWindow == 20

appwrite_getServeAttempts(limit, offset) ==
    /\ pc = "idle"
    /\ \E fail \in FaultChoice :
          /\ result' = Returned(getServeAttempts(limit, offset, fail))
          /\ faults' = Fault(fail, <<"getServeAttempts", "">>)
    /\ op' = "getServeAttempts"
    /\ arg' = [limit |-> limit, offset |-> offset]
    /\ pc' = "done"
    /\ UNCHANGED <<remote, local, queue, calls>>

\* the limits the callers pass: Dashboard's 6, the default, and two others
Limits == {1, 6, ImageWindow + 1, DefaultLimit}
Offsets == {0, 1, ImageWindow}

\* n stored serve attempts; creation order is timestamp order or its reverse;
\* the documents whose index is in `withImage` carry an image
ServeId(i) == "s" \o Nat2Str(i \div 100) \o Nat2Str((i \div 10) % 10) \o Nat2Str(i % 10)

ListedServes(n, reversed, withImage, img) ==
    [i \in 1..n |->
        ServeDoc(ServeId(i), Owner(i, 1),
                 IF reversed THEN n + 1 - i ELSE i,
                 IF i \in withImage THEN img ELSE "")]

InitList ==
    /\ clients = <<ClientDoc("c1", "a@x"), ClientDoc("c2", "b@x")>>
    /\ cases = <<>>
    /\ documents = <<>>
    /\ files = {}
    /\ \E n \in 0..MaxListed : \E reversed \in BOOLEAN :
       \E withImage \in {{}, 1..n} \cup {{i} : i \in 1..n} :
          serves = ListedServes(n, reversed, withImage, "img")
    /\ localServes = <<>>
    /\ events = 0
    /\ stateClients = <<>>
    /\ localClients = stateClients
    /\ loads = <<>>
    /\ recentServes = <<>>
    /\ timers = 0
    /\ outbox = <<>>
    /\ pc = "idle"
    /\ op = "none"
    /\ arg = [limit |-> 0, offset |-> 0]
    /\ queue = <<>>
    /\ calls = <<>>
    /\ result = Pending
    /\ faults = {}

NextList ==
    \E limit \in Limits : \E offset \in Offsets :
        appwrite_getServeAttempts(limit, offset)

SpecList == InitList /\ [][NextList]_vars

---------------------------------------------------------------------------
(* Claims about listing (SpecList).                                        *)

Listed == result.value
StoredImage(id) == Get(Doc(serves, id), "image_data")

\* C2: a list returned for offset 0 carries a non-null image payload only at
\* the positions 0..19 of the returned order.
C2_ImagesOnlyInFirstTwenty ==
    (Finished("getServeAttempts") /\ arg.offset = 0)
    => \A i \in DOMAIN Listed :
          Listed[i].imageData # Null => i - 1 < ImageWindow

\* C3: a list returned for an offset above 0 carries no image payload at all.
C3_NoImagesPastFirstPage ==
    (Finished("getServeAttempts") /\ arg.offset > 0)
    => \A i \in DOMAIN Listed : Listed[i].imageData = Null

\* a page past the first that returns a record whose stored document has an image
C3_Witness ==
    /\ Finished("getServeAttempts")
    /\ arg.offset > 0
    /\ \E i \in DOMAIN Listed : ~Falsy(StoredImage(Listed[i].id))

---------------------------------------------------------------------------
(* appwrite.deleteClientDocument(docId, fileId) called on its own.         *)

Repeat(ch, n) == [i \in 1..n |-> ch]

\* file references a caller may pass: absent, empty, well-formed, beginning
\* with an underscore, holding a character outside the class, and of the
\* longest accepted and the shortest rejected length
FileIds ==
    {UndefinedStr, <<>>, <<"f", "1">>, <<"f", "2">>, <<"A", "_", "9">>,
     <<"_", "f">>, <<"f", "-", "1">>,
     Repeat("a", FileIdMaxLen), Repeat("a", FileIdMaxLen + 1)}

appwrite_deleteClientDocument(docId, fileId) ==
    /\ pc = "idle"
    /\ \E failFile \in FaultChoice : \E failDoc \in FaultChoice :
          LET out == deleteClientDocument(docId, fileId, failFile, failDoc)
          IN /\ ~(failFile /\ failDoc)
             /\ failFile => out.fileRequest
             /\ failDoc => out.docRequest
             /\ files' = out.files
             /\ documents' = out.documents
             /\ faults' = Fault(failFile \/ failDoc, DocumentFault(failFile, docId))
             /\ calls' = calls
                   \o (IF out.fileRequest
                       THEN <<Call("storage.deleteFile", docId)>> ELSE <<>>)
                   \o (IF out.docRequest
                       THEN <<Call("deleteDocument:documents", docId)>> ELSE <<>>)
             /\ result' = IF out.ret = "throw" THEN Thrown("error")
                          ELSE Returned("true")
    /\ op' = "deleteClientDocument"
    /\ arg' = [docId |-> docId, fileId |-> fileId]
    /\ pc' = "done"
    /\ UNCHANGED <<clients, cases, serves, local, queue>>

\* the stored documents d1.. reference a file each; the bucket holds any of
\* the well-formed file ids
InitDocument ==
    /\ clients = <<ClientDoc("c1", "a@x")>>
    /\ cases = <<>>
    /\ serves = <<>>
    /\ \E n \in 0..MaxDocs :
          documents = [i \in 1..n |-> DocumentDoc("d" \o Nat2Str(i), "c1", ValidFile(i))]
    /\ files \in SUBSET {f \in FileIds : DeletesFile(f)}
    /\ localServes = <<>>
    /\ events = 0
    /\ stateClients = <<>>
    /\ localClients = stateClients
    /\ loads = <<>>
    /\ recentServes = <<>>
    /\ timers = 0
    /\ outbox = <<>>
    /\ pc = "idle"
    /\ op = "none"
    /\ arg = [docId |-> "none", fileId |-> <<>>]
    /\ queue = <<>>
    /\ calls = <<>>
    /\ result = Pending
    /\ faults = {}

NextDocument ==
    \E i \in 1..MaxDocs : \E fileId \in FileIds :
        appwrite_deleteClientDocument("d" \o Nat2Str(i), fileId)

SpecDocument == InitDocument /\ [][NextDocument]_vars

---------------------------------------------------------------------------
(* Claims about document deletion (SpecDocument).                          *)

\* 1 to 36 characters of [a-zA-Z0-9_], the first not an underscore
ValidFileId(fileId) ==
    /\ fileId # UndefinedStr
    /\ Len(fileId) \in 1..FileIdMaxLen
    /\ \A i \in DOMAIN fileId : fileId[i] \in WordChars
    /\ fileId[1] # "_"

FileRequested ==
    \E i \in DOMAIN calls : calls[i].fn = "storage.deleteFile"

\* C5: deleteClientDocument(docId, fileId) on a stored document asks for the
\* file to be deleted only when fileId is valid, and, unless the deletion of
\* the record itself is what failed, the record docId is gone when it ends:
\* for a valid, invalid or absent fileId, the file deletion failing or not.
C5_RecordAlwaysDeleted ==
    (/\ Finished("deleteClientDocument")
     /\ OnlyFaults({"storage.deleteFile"}))
    => /\ FileRequested => ValidFileId(arg.fileId)
       /\ ~Has(documents, arg.docId)

---------------------------------------------------------------------------
(* appwrite.sendEmailViaFunction(emailData).                               *)

BusinessEmail == "info@justlegalsolutions.org"

\* String.prototype.toLowerCase on the addresses of the model
ToLowerCase(address) ==
    CASE address = "Info@JustLegalSolutions.org" -> "info@justlegalsolutions.org"
      [] address = "A@x" -> "a@x"
      [] OTHER -> address

\* emailData.to is one address or an array of addresses
One(address) == [isArray |-> FALSE, value |-> address]
Many(addresses) == [isArray |-> TRUE, value |-> addresses]

\* a variant that compares the addresses as they are written
Recipients_caseSensitive(to) ==
    LET recipients == IF to.isArray THEN to.value ELSE <<to.value>>
    IN IF \E i \in DOMAIN recipients : recipients[i] = BusinessEmail
       THEN recipients
       ELSE Append(recipients, BusinessEmail)

\* const recipients = Array.isArray(emailData.to) ? [...emailData.to] : [emailData.to];
\* if (!recipients.some(e => e.toLowerCase() === businessEmail.toLowerCase()))
\*     recipients.push(businessEmail)
Recipients(to) ==
    LET recipients == IF to.isArray THEN to.value ELSE <<to.value>>
    IN IF \E i \in DOMAIN recipients :
             ToLowerCase(recipients[i]) = ToLowerCase(BusinessEmail)
       THEN recipients
       ELSE Append(recipients, BusinessEmail)

\* what the function execution does: completes, reports a failure, or throws
Executions == IF Cardinality(faults) < MaxFaults
              THEN {"completed", "failed", "throw"} ELSE {"completed"}

\* the execution is requested with the recipients; only "completed" is a success
sendEmailViaFunction(emailData, execution) ==
    [outbox |-> Append(outbox, [to |-> Recipients(emailData.to),
                                subject |-> emailData.subject,
                                execution |-> execution]),
     success |-> execution = "completed"]

---------------------------------------------------------------------------
(* appwrite.syncAppwriteServesToLocal().                                   *)

SyncWindow == 100
SizeLimitMB == 5

\* bytes of an image payload in the serialized array (null is 4 characters)
ImageBytes(img) ==
    CASE img = Null -> 4
      [] img = "img" -> 100000
      [] img = "big" -> 3000000

\* new Blob([JSON.stringify(frontendServes)]).size: the brackets, and for each
\* record its image payload and about 300 bytes of other fields
ByteSize(records) ==
    LET Count(img) == Cardinality({i \in DOMAIN records : records[i].imageData = img})
    IN 2 + 300 * Len(records)
         + ImageBytes(Null) * Count(Null)
         + ImageBytes("img") * Count("img")
         + ImageBytes("big") * Count("big")

\* a variant that keeps the image at every index
SyncImage_anyIndex(doc, index) == Or(Get(doc, "image_data"), Null)

\* imageData: response.documents.indexOf(doc) < 20 ? (doc.image_data || null) : null
SyncImage(doc, index) ==
    IF index < ImageWindow THEN Or(Get(doc, "image_data"), Null) ELSE Null

\* sizeInMB > 5
OverSizeLimit(records) == ByteSize(records) > SizeLimitMB * 1024 * 1024

\* const frontendServes = response.documents.map(doc => ({...}))
FrontendServes(docs) ==
    [i \in DOMAIN docs |-> FormatServe(docs[i], SyncImage(docs[i], i - 1))]

\* a variant that writes the batch as mapped, whatever its size
SyncBatch_keepImages(docs) == FrontendServes(docs)

\* the array the sync writes for the fetched documents
SyncBatch(docs) ==
    LET frontendServes == FrontendServes(docs)
    IN IF OverSizeLimit(frontendServes)
       THEN [i \in DOMAIN docs |-> [frontendServes[i] EXCEPT !.imageData = Null]]
       ELSE frontendServes

\* if (!response.documents || response.documents.length === 0) return false
NothingToSync(docs) == docs = <<>>

\* a variant that reports success although the write to the cache failed
syncAppwriteServesToLocal_optimistic(failFetch, failStore) ==
    LET docs == Page(OrderDesc(serves), SyncWindow, 0)
        unchanged == [localServes |-> localServes, events |-> events, ret |-> "false"]
    IN IF failFetch THEN unchanged
       ELSE IF NothingToSync(docs) THEN unchanged
       ELSE IF failStore THEN [unchanged EXCEPT !.ret = "true"]
       ELSE [localServes |-> SyncBatch(docs), events |-> events + 1, ret |-> "true"]

syncAppwriteServesToLocal(failFetch, failStore) ==
    LET docs == Page(OrderDesc(serves), SyncWindow, 0)
        unchanged == [localServes |-> localServes, events |-> events, ret |-> "false"]
    IN IF failFetch THEN unchanged
       ELSE IF NothingToSync(docs) THEN unchanged
       ELSE IF failStore THEN unchanged
       ELSE [localServes |-> SyncBatch(docs), events |-> events + 1, ret |-> "true"]

---------------------------------------------------------------------------
(* appwrite.updateServeAttempt(serveId, serveData): one action per await.  *)

\* the stored field each input field is compared with and written to
DiffFields == {"notes", "status", "caseNumber", "caseName"}
StoredField(k) ==
    CASE k = "notes" -> "notes"
      [] k = "status" -> "status"
      [] k = "caseNumber" -> "case_number"
      [] k = "caseName" -> "case_name"

\* if (serveData.k !== undefined && serveData.k !== originalDoc.field)
Differs_ignoringStored(serveData, originalDoc, k) == Get(serveData, k) # Undefined
Differs(serveData, originalDoc, k) ==
    /\ Get(serveData, k) # Undefined
    /\ Get(serveData, k) # Get(originalDoc, StoredField(k))

InputField(f) == CHOOSE k \in DiffFields : StoredField(k) = f

\* const updateData = {}; ... updateData.field = serveData.k
DiffOf(serveData, originalDoc) ==
    LET changed == {k \in DiffFields : Differs(serveData, originalDoc, k)}
    IN [f \in {StoredField(k) : k \in changed} |-> serveData[InputField(f)]]

UpdateData_withClient(serveData, originalDoc) ==
    IF "clientId" \in DOMAIN serveData
    THEN [client_id |-> serveData.clientId] @@ DiffOf(serveData, originalDoc)
    ELSE DiffOf(serveData, originalDoc)

UpdateData(serveData, originalDoc) == DiffOf(serveData, originalDoc)

\* databases.updateDocument: the fields of the payload replace the stored ones
Patched(doc, updateData) ==
    [k \in DOMAIN doc \cup DOMAIN updateData |->
        IF k \in DOMAIN updateData THEN updateData[k] ELSE doc[k]]
Replace(coll, id, doc) == [i \in DOMAIN coll |-> IF Id(coll[i]) = id THEN doc ELSE coll[i]]

\* const docId = ...; if (!docId) throw; const originalDoc = await databases.getDocument(...)
appwrite_updateServeAttempt(serveId, serveData) ==
    /\ pc = "idle"
    /\ op' = "updateServeAttempt"
    /\ \E fail \in FaultChoice :
          LET throws == Falsy(serveId) \/ fail \/ ~Has(serves, serveId)
          IN /\ ~Falsy(serveId) \/ ~fail
             /\ faults' = Fault(fail, <<"getDocument", serveId>>)
             /\ IF throws
                THEN /\ pc' = "done"
                     /\ result' = Thrown("error")
                     /\ arg' = [docId |-> serveId, serveData |-> serveData]
                ELSE /\ pc' = "upd_fetched"
                     /\ result' = result
                     /\ arg' = [docId |-> serveId, serveData |-> serveData,
                                originalDoc |-> Doc(serves, serveId)]
    /\ UNCHANGED <<remote, local, queue, calls>>

\* a variant that computes the payload against the document stored at the
\* time of the write
appwrite_updateServeAttempt_write_fresh ==
    /\ pc = "upd_fetched"
    /\ LET updateData == UpdateData(arg.serveData, Doc(serves, arg.docId))
       IN IF DOMAIN updateData = {}
          THEN /\ pc' = "done"
               /\ result' = Returned(arg.originalDoc)
               /\ UNCHANGED <<serves, faults, calls, arg>>
          ELSE \E fail \in FaultChoice :
                  LET throws == fail \/ ~Has(serves, arg.docId)
                      response == Patched(Doc(serves, arg.docId), updateData)
                  IN /\ faults' = Fault(fail, <<"updateDocument", arg.docId>>)
                     /\ calls' = Append(calls, [fn |-> "updateDocument",
                                                id |-> arg.docId, data |-> updateData])
                     /\ IF throws
                        THEN /\ pc' = "done"
                             /\ result' = Thrown("error")
                             /\ UNCHANGED <<serves, arg>>
                        ELSE /\ pc' = "upd_written"
                             /\ result' = result
                             /\ serves' = Replace(serves, arg.docId, response)
                             /\ arg' = [docId |-> arg.docId, serveData |-> arg.serveData,
                                        originalDoc |-> arg.originalDoc,
                                        response |-> response]
    /\ UNCHANGED <<clients, cases, documents, files, local, op, queue>>

\* if (Object.keys(updateData).length > 0) { response = await databases.updateDocument(...) }
\* else return originalDoc
appwrite_updateServeAttempt_write ==
    /\ pc = "upd_fetched"
    /\ LET updateData == UpdateData(arg.serveData, arg.originalDoc)
       IN IF DOMAIN updateData = {}
          THEN /\ pc' = "done"
               /\ result' = Returned(arg.originalDoc)
               /\ UNCHANGED <<serves, faults, calls, arg>>
          ELSE \E fail \in FaultChoice :
                  LET throws == fail \/ ~Has(serves, arg.docId)
                      response == Patched(Doc(serves, arg.docId), updateData)
                  IN /\ faults' = Fault(fail, <<"updateDocument", arg.docId>>)
                     /\ calls' = Append(calls, [fn |-> "updateDocument",
                                                id |-> arg.docId, data |-> updateData])
                     /\ IF throws
                        THEN /\ pc' = "done"
                             /\ result' = Thrown("error")
                             /\ UNCHANGED <<serves, arg>>
                        ELSE /\ pc' = "upd_written"
                             /\ result' = result
                             /\ serves' = Replace(serves, arg.docId, response)
                             /\ arg' = [docId |-> arg.docId, serveData |-> arg.serveData,
                                        originalDoc |-> arg.originalDoc,
                                        response |-> response]
    /\ UNCHANGED <<clients, cases, documents, files, local, op, queue>>

\* try { const client = await databases.getDocument(..., response.client_id);
\*       if (client.email) await this.sendEmailViaFunction({to: client.email, ...}) } catch {}
appwrite_updateServeAttempt_notify ==
    /\ pc = "upd_written"
    /\ \E fail \in FaultChoice : \E execution \in Executions :
          LET clientId == arg.response.client_id
              throws == fail \/ ~Has(clients, clientId)
              sends == ~throws /\ ~Falsy(Get(Doc(clients, clientId), "email"))
          IN /\ execution # "completed" => (sends /\ ~fail)
             /\ faults' = Fault(fail \/ execution # "completed",
                                <<IF fail THEN "getDocument:clients"
                                  ELSE "createExecution", clientId>>)
             /\ outbox' =
                   IF sends
                   THEN sendEmailViaFunction(
                            [to |-> One(Doc(clients, clientId).email),
                             subject |-> "Serve Attempt Updated - "
                                         \o arg.response.case_name],
                            execution).outbox
                   ELSE outbox
    /\ pc' = "upd_notified"
    /\ UNCHANGED <<remote, localServes, events, stateClients, localClients, loads, recentServes,
                   timers, op, arg, queue,
                   calls, result>>

\* a variant in which a sync that reports failure fails the update
appwrite_updateServeAttempt_sync_strict ==
    /\ pc = "upd_notified"
    /\ \E failFetch \in FaultChoice : \E failStore \in FaultChoice :
          LET out == syncAppwriteServesToLocal(failFetch, failStore)
          IN /\ ~(failFetch /\ failStore)
             /\ localServes' = out.localServes
             /\ events' = out.events
             /\ faults' = Fault(failFetch \/ failStore,
                                <<IF failFetch THEN "listDocuments" ELSE "setItem", "">>)
             /\ calls' = Append(calls, [fn |-> "syncAppwriteServesToLocal",
                                        id |-> out.ret, data |-> <<>>])
             /\ result' = IF out.ret = "true" THEN Returned(arg.response)
                          ELSE Thrown("error")
    /\ pc' = "done"
    /\ UNCHANGED <<remote, stateClients, localClients, loads, recentServes, timers, outbox, op, arg, queue>>

\* await this.syncAppwriteServesToLocal(); return response
appwrite_updateServeAttempt_sync ==
    /\ pc = "upd_notified"
    /\ \E failFetch \in FaultChoice : \E failStore \in FaultChoice :
          LET out == syncAppwriteServesToLocal(failFetch, failStore)
          IN /\ ~(failFetch /\ failStore)
             /\ localServes' = out.localServes
             /\ events' = out.events
             /\ faults' = Fault(failFetch \/ failStore,
                                <<IF failFetch THEN "listDocuments" ELSE "setItem", "">>)
             /\ calls' = Append(calls, [fn |-> "syncAppwriteServesToLocal",
                                        id |-> out.ret, data |-> <<>>])
    /\ pc' = "done"
    /\ result' = Returned(arg.response)
    /\ UNCHANGED <<remote, stateClients, localClients, loads, recentServes, timers, outbox, op, arg, queue>>


\* the serve attempts the update is tried on: s1 of c1, who has an email
\* address, and s2 of c2, who has none
InitUpdate ==
    /\ clients = <<ClientDoc("c1", "a@x"), ClientDoc("c2", "")>>
    /\ cases = <<>>
    /\ serves = <<ServeDoc("s1", "c1", 1, "img"), ServeDoc("s2", "c2", 2, "")>>
    /\ documents = <<>>
    /\ files = {}
    /\ localServes = <<>>
    /\ events = 0
    /\ stateClients = <<>>
    /\ localClients = stateClients
    /\ loads = <<>>
    /\ recentServes = <<>>
    /\ timers = 0
    /\ outbox = <<>>
    /\ pc = "idle"
    /\ op = "none"
    /\ arg = [docId |-> "none"]
    /\ queue = <<>>
    /\ calls = <<>>
    /\ result = Pending
    /\ faults = {}

\* the fields a caller may also pass (Dashboard passes the whole record)
ImmutableInputs ==
    [clientId |-> "c2", timestamp |-> 77, coordinates |-> "9,9",
     imageData |-> "big", address |-> "elsewhere", attemptNumber |-> 5]

StoredValue(k) == ServeDoc("s1", "c1", 1, "img")[StoredField(k)]
OtherValue(k) ==
    CASE k = "notes" -> "t1"
      [] k = "status" -> "completed"
      [] k = "caseNumber" -> "n1"
      [] k = "caseName" -> "k1"

\* every input: each of the four fields absent, equal to the stored value or
\* different from it, with or without the other fields
UpdateInputs ==
    {LET given == [k \in {k \in DiffFields : c[k] # "absent"} |->
                      IF c[k] = "same" THEN StoredValue(k) ELSE OtherValue(k)]
     IN IF whole THEN given @@ ImmutableInputs ELSE given :
        c \in [DiffFields -> {"absent", "same", "other"}], whole \in BOOLEAN}

NextUpdate ==
    \/ \E serveId \in {"s1", "s2", "s9", ""} : \E serveData \in UpdateInputs :
          appwrite_updateServeAttempt(serveId, serveData)
    \/ appwrite_updateServeAttempt_write
    \/ appwrite_updateServeAttempt_notify
    \/ appwrite_updateServeAttempt_sync

SpecUpdate == InitUpdate /\ [][NextUpdate]_vars

---------------------------------------------------------------------------
(* Claims about updates (SpecUpdate).                                      *)

Fetched == op = "updateServeAttempt" /\ "originalDoc" \in DOMAIN arg
Writes == SelectSeq(calls, LAMBDA c : c.fn = "updateDocument")
Syncs == SelectSeq(calls, LAMBDA c : c.fn = "syncAppwriteServesToLocal")
NothingNew ==
    \A k \in DiffFields :
       Get(arg.serveData, k) \in {Undefined, arg.originalDoc[StoredField(k)]}

\* C6: an update whose notes, status, caseNumber and caseName are absent or
\* equal to the stored values issues no updateDocument, sends no email, starts
\* no cache sync, and returns the document it fetched.
C6_EmptyDiffIsNoOp ==
    (Fetched /\ NothingNew)
    => /\ Writes = <<>>
       /\ outbox = <<>>
       /\ Syncs = <<>>
       /\ localServes = <<>> /\ events = 0
       /\ serves = <<ServeDoc("s1", "c1", 1, "img"), ServeDoc("s2", "c2", 2, "")>>
       /\ pc \in {"upd_fetched", "done"}
       /\ pc = "done" => result = Returned(arg.originalDoc)

\* the whole stored record passed back unchanged has returned the stored document
C6_Witness ==
    /\ Fetched /\ NothingNew /\ pc = "done"
    /\ DiffFields \subseteq DOMAIN arg.serveData
    /\ "imageData" \in DOMAIN arg.serveData
    /\ result = Returned(arg.originalDoc)

ImmutableFields ==
    {"client_id", "timestamp", "coordinates", "image_data", "address", "attempt_number"}

\* C7: every payload written holds only notes, status, case_number and
\* case_name, each only when the input gives it a value different from the
\* stored one (the value written); and every update leaves the stored client
\* reference, timestamp, coordinates, image, address and attempt number as
\* they were.
C7_PayloadIsMinimalDiff ==
    Fetched
    => /\ \A i \in DOMAIN Writes :
             /\ Writes[i].id = arg.docId
             /\ DOMAIN Writes[i].data \subseteq {StoredField(k) : k \in DiffFields}
             /\ \A f \in DOMAIN Writes[i].data :
                   /\ InputField(f) \in DOMAIN arg.serveData
                   /\ arg.serveData[InputField(f)] # arg.originalDoc[f]
                   /\ Writes[i].data[f] = arg.serveData[InputField(f)]
       /\ \A f \in ImmutableFields :
             Doc(serves, arg.docId)[f] = arg.originalDoc[f]

\* a write went through for an input that also supplied the immutable fields
C7_Witness ==
    /\ Fetched /\ pc = "done"
    /\ Writes # <<>>
    /\ "clientId" \in DOMAIN arg.serveData
    /\ arg.serveData.clientId # arg.originalDoc.client_id
    /\ result.status = "returned"
    /\ Doc(serves, arg.docId) # arg.originalDoc

Written == op = "updateServeAttempt" /\ "response" \in DOMAIN arg
SideEffectSites == {"getDocument:clients", "createExecution", "listDocuments", "setItem"}
Owner_email == Get(Doc(clients, arg.response.client_id), "email")
LookupFailed == \E f \in faults : f[1] = "getDocument:clients"

\* C14: once the write of a non-empty diff has succeeded, an email to the
\* owning client's address is attempted (when the lookup gives one), one
\* cache sync is started, and the call returns the updated document whether
\* or not the lookup, the email or the sync failed.
C14_SideEffectsNeverFailUpdate ==
    Written
    => /\ Doc(serves, arg.docId) = arg.response
       /\ arg.response = Patched(arg.originalDoc, Writes[1].data)
       /\ pc \in {"upd_notified", "done"}
            => IF LookupFailed \/ Falsy(Owner_email)
               THEN outbox = <<>>
               ELSE /\ Len(outbox) = 1
                    /\ outbox[1].to[1] = Owner_email
       /\ pc = "done"
            => /\ result = Returned(arg.response)
               /\ Len(Syncs) = 1

\* an update has returned the updated document although a side effect failed
C14_Witness ==
    /\ Written /\ pc = "done"
    /\ \E f \in faults : f[1] \in SideEffectSites
    /\ result = Returned(arg.response)
    /\ arg.response # arg.originalDoc

---------------------------------------------------------------------------
(* The cache sync called on its own, between deletions of serve attempts   *)
(* through AnimatedRoutes.deleteServe.                                     *)

\* the requests of the k-th call of the run
Site(request) == <<request, Nat2Str(Len(calls) + 1)>>

appwrite_syncAppwriteServesToLocal ==
    /\ pc = "idle"
    /\ Len(calls) < MaxOps
    /\ \E failFetch \in FaultChoice : \E failStore \in FaultChoice :
          LET out == syncAppwriteServesToLocal(failFetch, failStore)
          IN /\ ~(failFetch /\ failStore)
             /\ localServes' = out.localServes
             /\ events' = out.events
             /\ faults' = Fault(failFetch \/ failStore,
                                Site(IF failFetch THEN "listDocuments" ELSE "setItem"))
             /\ calls' = Append(calls, Call("syncAppwriteServesToLocal", out.ret))
             /\ result' = Returned(out.ret)
    /\ op' = "syncAppwriteServesToLocal"
    /\ UNCHANGED <<remote, stateClients, localClients, loads, recentServes, timers, outbox, pc, arg, queue>>

\* try { await appwrite.deleteServeAttempt(serveId); return true } catch { return false }
App_deleteServe(serveId) ==
    /\ pc = "idle"
    /\ Len(calls) < MaxOps
    /\ \E fail \in FaultChoice :
          LET out == deleteServeAttempt(serveId, fail)
              ret == IF out.ret = "throw" THEN "false" ELSE "true"
          IN /\ serves' = out.serves
             /\ faults' = Fault(fail, Site("deleteDocument"))
             /\ calls' = Append(calls, Call("App.deleteServe", ret))
             /\ result' = Returned(ret)
    /\ op' = "App.deleteServe"
    /\ UNCHANGED <<clients, cases, documents, files, local, pc, arg, queue>>

\* store sizes: small, past the image window, past the sync window
SyncSizes == (0..2) \cup {ImageWindow + 1, MaxSynced}

InitSync ==
    /\ clients = <<ClientDoc("c1", "a@x"), ClientDoc("c2", "b@x")>>
    /\ cases = <<>>
    /\ documents = <<>>
    /\ files = {}
    /\ \E n \in SyncSizes : \E reversed \in BOOLEAN :
       \E pattern \in {<<{}, "">>, <<1..n, "img">>, <<1..n, "big">>, <<{n}, "big">>} :
          serves = ListedServes(n, reversed, pattern[1], pattern[2])
    /\ localServes = <<>>
    /\ events = 0
    /\ stateClients = <<>>
    /\ localClients = stateClients
    /\ loads = <<>>
    /\ recentServes = <<>>
    /\ timers = 0
    /\ outbox = <<>>
    /\ pc = "idle"
    /\ op = "none"
    /\ arg = [docId |-> "none"]
    /\ queue = <<>>
    /\ calls = <<>>
    /\ result = Pending
    /\ faults = {}

NextSync ==
    \/ appwrite_syncAppwriteServesToLocal
    \/ App_deleteServe(ServeId(1))

SpecSync == InitSync /\ [][NextSync]_vars

---------------------------------------------------------------------------
(* Claims about the cache sync (SpecSync).                                 *)

LastCall == calls[Len(calls)]
LastSyncRan ==
    /\ calls # <<>>
    /\ LastCall.fn = "syncAppwriteServesToLocal"
    /\ \A f \in faults : f[2] # Nat2Str(Len(calls))
SyncsPersisted ==
    Len(SelectSeq(calls, LAMBDA c : c = Call("syncAppwriteServesToLocal", "true")))

\* C10: after a sync whose fetch (and whose write to the cache) did not fail,
\* the cache is the normalized window of the 100 most recent stored serve
\* attempts, also when the store is empty; and one "serves-updated" event has
\* been dispatched for each sync that persisted.
C10_SyncReplacesCache ==
    LastSyncRan
    => /\ localServes = SyncBatch(Page(OrderDesc(serves), SyncWindow, 0))
       /\ Len(localServes) <= SyncWindow
       /\ events = SyncsPersisted

SyncedNow ==
    /\ calls # <<>>
    /\ LastCall = Call("syncAppwriteServesToLocal", "true")
Window == Page(OrderDesc(serves), SyncWindow, 0)
FaultInLastCall == \E f \in faults : f[2] = Nat2Str(Len(calls))

\* C11: when the serialized normalized batch is larger than 5 MB, every
\* record the sync writes to the cache has a null image, the records at
\* positions 0..19 included.
C11_OversizeBatchHasNoImages ==
    (SyncedNow /\ OverSizeLimit(FrontendServes(Window)))
    => \A i \in DOMAIN localServes : localServes[i].imageData = Null

\* a sync has persisted an oversize batch whose first record has a stored image
C11_Witness ==
    /\ SyncedNow
    /\ OverSizeLimit(FrontendServes(Window))
    /\ Window[1].image_data = "big"
    /\ Len(localServes) = Len(Window)

\* C12: in every batch the sync has written to the cache, a record has a
\* non-null image only at a position below 20 of the batch, and the batch is
\* in descending timestamp order.
C12_CachedImagesOnlyInFirstTwenty ==
    /\ \A i \in DOMAIN localServes :
          localServes[i].imageData # Null => i - 1 < ImageWindow
    /\ \A i \in DOMAIN localServes : \A j \in DOMAIN localServes :
          i < j => localServes[i].timestamp >= localServes[j].timestamp

\* a batch was written whose record at position 19 kept its image and whose
\* record at position 20 lost the image it has in the store
C12_Witness ==
    /\ SyncedNow
    /\ Len(localServes) > ImageWindow
    /\ localServes[ImageWindow].imageData # Null
    /\ Window[ImageWindow + 1].image_data # ""
    /\ localServes[ImageWindow + 1].imageData = Null

\* C13: the sync always settles by returning a boolean, never by throwing;
\* it returns false when the fetch or the write to the cache failed, and it
\* returns true only when the batch is in the cache and the event was sent.
C13_SyncNeverThrows ==
    (calls # <<>> /\ LastCall.fn = "syncAppwriteServesToLocal")
    => /\ result \in {Returned("true"), Returned("false")}
       /\ result.value = LastCall.id
       /\ FaultInLastCall => result = Returned("false")
       /\ result = Returned("true")
            => /\ localServes = SyncBatch(Window)
               /\ localServes # <<>>
               /\ events > 0

\* a sync whose write to the cache failed has returned false
C13_Witness ==
    /\ calls # <<>>
    /\ LastCall = Call("syncAppwriteServesToLocal", "false")
    /\ \E f \in faults : f = <<"setItem", Nat2Str(Len(calls))>>
    /\ result = Returned("false")
    /\ serves # <<>>

---------------------------------------------------------------------------
(* appwrite.createServeAttempt(serveData): one action per await.           *)

\* a missing number reads as undefined, which is falsy like 0
GetNum(o, k) == IF k \in DOMAIN o THEN o[k] ELSE 0

\* coordinates are absent, a string, or an object whose latitude and
\* longitude are numbers (here: hundredths, 1234 for 12.34)
NoCoordinates == [type |-> "undefined"]
CoordinateString(text) == [type |-> "string", value |-> text]
CoordinatePair(lat, lon) == [type |-> "object", latitude |-> lat, longitude |-> lon]
GetCoordinates(o) == IF "coordinates" \in DOMAIN o THEN o.coordinates ELSE NoCoordinates

\* Number.prototype.toString for a number of at most two decimals
RECURSIVE IntToString(_)
IntToString(k) ==
    IF k < 10 THEN Nat2Str(k) ELSE IntToString(k \div 10) \o Nat2Str(k % 10)

NumberToString(n) ==
    LET a == IF n < 0 THEN 0 - n ELSE n
        frac == a % 100
    IN (IF n < 0 THEN "-" ELSE "")
       \o IntToString(a \div 100)
       \o (IF frac = 0 THEN ""
           ELSE IF frac % 10 = 0 THEN "." \o Nat2Str(frac \div 10)
           ELSE "." \o Nat2Str(frac \div 10) \o Nat2Str(frac % 10))

\* a variant that keeps strings only
PersistedCoordinates_stringsOnly(c) ==
    IF c.type = "string" /\ c.value # "" THEN c.value ELSE "0,0"

\* let coordinates = "0,0"; if (serveData.coordinates) { string: itself;
\* object with latitude and longitude: `${latitude},${longitude}` }
PersistedCoordinates(c) ==
    IF c.type = "string" /\ c.value # "" THEN c.value
    ELSE IF c.type = "object" /\ "latitude" \in DOMAIN c /\ "longitude" \in DOMAIN c
         THEN NumberToString(c.latitude) \o "," \o NumberToString(c.longitude)
         ELSE "0,0"

\* serveData.address || (typeof coordinates === 'string' ? `Coordinates: ...` : ...)
PersistedAddress(serveData) ==
    LET c == GetCoordinates(serveData)
    IN Or(Get(serveData, "address"),
          IF c.type = "string" THEN "Coordinates: " \o c.value
          ELSE "Address not provided")

\* if (!serveData.clientId || serveData.clientId === "unknown") throw
ValidClient(serveData) ==
    ~Falsy(Get(serveData, "clientId")) /\ Get(serveData, "clientId") # "unknown"

\* the document createDocument is asked to store
CreatePayload(serveData, clientName, documentId) ==
    ("$id" :> documentId) @@
    [client_id |-> serveData.clientId,
     client_name |-> clientName,
     case_number |-> Or(Get(serveData, "caseNumber"), "Not Specified"),
     case_name |-> Or(Get(serveData, "caseName"), "Unknown Case"),
     status |-> Or(Get(serveData, "status"), "unknown"),
     notes |-> Or(Get(serveData, "notes"), ""),
     address |-> PersistedAddress(serveData),
     coordinates |-> PersistedCoordinates(GetCoordinates(serveData)),
     image_data |-> Or(Get(serveData, "imageData"), ""),
     timestamp |-> OrNum(GetNum(serveData, "timestamp"), Now),
     attempt_number |-> OrNum(GetNum(serveData, "attemptNumber"), 1)]

\* the record the catch block pushes to localStorage["serve-tracker-serves"]
FallbackServe(serveData, id) ==
    [id |-> id,
     clientId |-> Get(serveData, "clientId"),
     clientName |-> Or(Get(serveData, "clientName"), "Unknown Client"),
     clientEmail |-> Get(serveData, "clientEmail"),
     caseNumber |-> Or(Get(serveData, "caseNumber"), "Unknown"),
     caseName |-> Or(Get(serveData, "caseName"), "Unknown Case"),
     coordinates |-> GetCoordinates(serveData),
     notes |-> Or(Get(serveData, "notes"), ""),
     status |-> Or(Get(serveData, "status"), "unknown"),
     timestamp |-> Now,
     attemptNumber |-> OrNum(GetNum(serveData, "attemptNumber"), 1),
     imageData |-> Or(Get(serveData, "imageData"), Null),
     address |-> Or(Get(serveData, "address"), "")]

\* catch (error) { try { push newServe; setItem; return newServe } catch {} throw error }
LocalFallback(serveData, failStore) ==
    IF failStore
    THEN [localServes |-> localServes, result |-> Thrown("error")]
    ELSE LET newServe == FallbackServe(serveData, "local1")
         IN [localServes |-> Append(localServes, newServe),
             result |-> Returned(newServe)]

\* the write to localStorage may fail too, within the same budget of faults
StoreFaultChoice(fail) ==
    IF Cardinality(faults) + (IF fail THEN 1 ELSE 0) < MaxFaults
    THEN BOOLEAN ELSE {FALSE}

\* a variant in which a failed lookup of the client ends the creation in the
\* catch block
appwrite_createServeAttempt_strictLookup(serveData) ==
    /\ pc = "idle"
    /\ op' = "createServeAttempt"
    /\ \E fail \in FaultChoice :
          LET given == Or(Get(serveData, "clientName"), "Unknown Client")
              lookup == ValidClient(serveData) /\ given = "Unknown Client"
              found == lookup /\ ~fail /\ Has(clients, serveData.clientId)
              out == LocalFallback(serveData, FALSE)
          IN /\ fail => lookup
             /\ faults' = Fault(fail, <<"getDocument:clients", Get(serveData, "clientId")>>)
             /\ IF ~ValidClient(serveData) \/ (lookup /\ ~found)
                THEN /\ localServes' = out.localServes
                     /\ result' = out.result
                     /\ arg' = [serveData |-> serveData]
                     /\ pc' = "done"
                ELSE /\ arg' = [serveData |-> serveData,
                                clientName |->
                                   IF found
                                   THEN Or(Get(Doc(clients, serveData.clientId), "name"),
                                           given)
                                   ELSE given]
                     /\ pc' = "crt_named"
                     /\ UNCHANGED <<localServes, result>>
    /\ UNCHANGED <<remote, events, stateClients, localClients, loads, recentServes,
                   timers, outbox, queue, calls>>

\* validation, then the client name: serveData.clientName, or the name of
\* the stored client, or "Unknown Client"
appwrite_createServeAttempt(serveData) ==
    /\ pc = "idle"
    /\ op' = "createServeAttempt"
    /\ IF ~ValidClient(serveData)
       THEN \E failStore \in FaultChoice :
               LET out == LocalFallback(serveData, failStore)
               IN /\ localServes' = out.localServes
                  /\ result' = out.result
                  /\ faults' = Fault(failStore, <<"setItem", "">>)
                  /\ arg' = [serveData |-> serveData]
                  /\ pc' = "done"
       ELSE \E fail \in FaultChoice :
               LET given == Or(Get(serveData, "clientName"), "Unknown Client")
                   lookup == given = "Unknown Client"
                   found == lookup /\ ~fail /\ Has(clients, serveData.clientId)
                   name == IF found
                           THEN Or(Get(Doc(clients, serveData.clientId), "name"), given)
                           ELSE given
               IN /\ fail => lookup
                  /\ faults' = Fault(fail, <<"getDocument:clients", serveData.clientId>>)
                  /\ arg' = [serveData |-> serveData, clientName |-> name]
                  /\ pc' = "crt_named"
                  /\ UNCHANGED <<localServes, result>>
    /\ UNCHANGED <<remote, events, stateClients, localClients, loads, recentServes, timers, outbox,
                   queue, calls>>

\* const response = await databases.createDocument(...), or the catch block
appwrite_createServeAttempt_create ==
    /\ pc = "crt_named"
    /\ \E fail \in FaultChoice : \E failStore \in StoreFaultChoice(fail) :
          LET payload == CreatePayload(arg.serveData, arg.clientName, "new1")
              out == LocalFallback(arg.serveData, failStore)
          IN /\ failStore => fail
             /\ faults' = Fault(fail, <<"createDocument", "new1">>)
                             \cup (IF failStore THEN {<<"setItem", "">>} ELSE {})
             /\ calls' = Append(calls, Call("createDocument", "new1"))
             /\ IF fail
                THEN /\ localServes' = out.localServes
                     /\ result' = out.result
                     /\ pc' = "done"
                     /\ UNCHANGED <<serves, arg>>
                ELSE /\ serves' = Append(serves, payload)
                     /\ arg' = [serveData |-> arg.serveData,
                                clientName |-> arg.clientName,
                                response |-> payload]
                     /\ pc' = "crt_created"
                     /\ UNCHANGED <<localServes, result>>
    /\ UNCHANGED <<clients, cases, documents, files, events, stateClients, localClients, loads, recentServes, timers,
                   outbox, op, queue>>

\* if (serveData.clientEmail) response.clientEmail = serveData.clientEmail
Response(response, serveData) ==
    IF Falsy(Get(serveData, "clientEmail")) THEN response
    ELSE [clientEmail |-> serveData.clientEmail] @@ response

\* a variant in which an email that was not sent undoes the creation
appwrite_createServeAttempt_notify_rollback ==
    /\ pc = "crt_created"
    /\ \E execution \in Executions :
          LET emailData == [to |-> One(Or(Get(arg.serveData, "clientEmail"),
                                          "info@justlegalsolutions.org")),
                            subject |-> "New Serve Attempt"]
          IN /\ outbox' = sendEmailViaFunction(emailData, execution).outbox
             /\ faults' = Fault(execution # "completed", <<"createExecution", "new1">>)
             /\ IF execution = "completed"
                THEN /\ result' = Returned(Response(arg.response, arg.serveData))
                     /\ serves' = serves
                ELSE /\ result' = Thrown("error")
                     /\ serves' = Without(serves, "new1")
    /\ pc' = "done"
    /\ UNCHANGED <<clients, cases, documents, files, localServes, events,
                   stateClients, localClients, loads, recentServes, timers, op, arg, queue, calls>>

\* try { await this.sendEmailViaFunction({to: serveData.clientEmail || business, ...}) }
\* catch {}; return response
appwrite_createServeAttempt_notify ==
    /\ pc = "crt_created"
    /\ \E execution \in Executions :
          LET statusText == IF arg.response.status = "completed"
                            THEN "Successful" ELSE "Failed"
              emailData == [to |-> One(Or(Get(arg.serveData, "clientEmail"),
                                          "info@justlegalsolutions.org")),
                            subject |-> "New Serve Attempt " \o statusText \o " - "
                                        \o arg.response.case_name]
          IN /\ outbox' = sendEmailViaFunction(emailData, execution).outbox
             /\ faults' = Fault(execution # "completed", <<"createExecution", "new1">>)
    /\ result' = Returned(Response(arg.response, arg.serveData))
    /\ pc' = "done"
    /\ UNCHANGED <<remote, localServes, events, stateClients, localClients, loads, recentServes, timers, op, arg, queue, calls>>

\* the inputs: each optional property is given or left out
Given(k, v) == IF v = Undefined THEN <<>> ELSE (k :> v)

CreateInputs ==
    {Given("clientId", id) @@ Given("clientName", name) @@ Given("clientEmail", email)
       @@ Given("address", address) @@ Given("imageData", img)
       @@ (IF c = NoCoordinates THEN <<>> ELSE [coordinates |-> c])
       @@ [caseNumber |-> "n1", caseName |-> "k1", notes |-> "t1", status |-> status] :
       id \in {Undefined, "", "unknown", "c1", "c2", "c9"},
       name \in {Undefined, "Bob", "Unknown Client"},
       email \in {Undefined, "a@x", "Info@JustLegalSolutions.org"},
       address \in {Undefined, "12 Main St"},
       img \in {Undefined, "img"},
       status \in {"completed", "failed"},
       c \in {NoCoordinates, CoordinateString("40.5,-73.9"), CoordinateString(""),
              CoordinatePair(4050, -7390), CoordinatePair(0, 12),
              [type |-> "object", latitude |-> 4050]}}

\* a client record whose name is empty
Nameless(doc) == [doc EXCEPT !["name"] = ""]

InitCreate ==
    /\ clients = <<ClientDoc("c1", "a@x"), Nameless(ClientDoc("c2", "b@x"))>>
    /\ cases = <<>>
    /\ serves \in {<<>>, <<ServeDoc("s1", "c1", 1, "img")>>}
    /\ documents = <<>>
    /\ files = {}
    /\ localServes = <<>>
    /\ events = 0
    /\ stateClients = <<>>
    /\ localClients = stateClients
    /\ loads = <<>>
    /\ recentServes = <<>>
    /\ timers = 0
    /\ outbox = <<>>
    /\ pc = "idle"
    /\ op = "none"
    /\ arg = [docId |-> "none"]
    /\ queue = <<>>
    /\ calls = <<>>
    /\ result = Pending
    /\ faults = {}

NextCreate ==
    \/ \E serveData \in CreateInputs : appwrite_createServeAttempt(serveData)
    \/ appwrite_createServeAttempt_create
    \/ appwrite_createServeAttempt_notify

SpecCreate == InitCreate /\ [][NextCreate]_vars

---------------------------------------------------------------------------
(* Claims about creating a serve attempt (SpecCreate).                     *)

InvalidClient ==
    /\ Finished("createServeAttempt")
    /\ ~ValidClient(arg.serveData)

\* C4: when createServeAttempt is called with a missing client id or with
\* the id "unknown", the call ends in an error, no serve attempt is stored
\* remotely, none is written to the local cache, and no record is returned.
C4_InvalidClientCreatesNothing ==
    InvalidClient =>
        /\ result.status = "thrown"
        /\ ~Has(serves, "new1")
        /\ localServes = <<>>

Created == op = "createServeAttempt" /\ "response" \in DOMAIN arg

\* C15: once the remote document has been created, one email is attempted,
\* and whether it is sent, reported as failed or throws, the call returns
\* the created document, which stays in the remote store; nothing is written
\* to the local cache.
C15_EmailNeverFailsCreate ==
    Created
    => /\ Has(serves, "new1")
       /\ Doc(serves, "new1") = arg.response
       /\ localServes = <<>>
       /\ pc = "done"
            => /\ result.status = "returned"
               /\ \A k \in DOMAIN arg.response : result.value[k] = arg.response[k]
               /\ Len(outbox) = 1
               /\ outbox[1].to[1] = Or(Get(arg.serveData, "clientEmail"), BusinessEmail)

\* a create has returned the created document although the email threw
C15_Witness ==
    /\ Created /\ pc = "done"
    /\ outbox[1].execution = "throw"
    /\ result.status = "returned"
    /\ Id(result.value) = "new1"
    /\ Has(serves, "new1")

---------------------------------------------------------------------------
(* The read operations of the gateway, each one request.                   *)

\* try { return (await databases.listDocuments(clients)).documents } catch (e) { throw e }
getClients(fail) ==
    IF fail THEN Thrown("error") ELSE Returned(clients)

\* queries.push(Query.equal('case_number', caseNumber))
OfCase(coll, caseNumber) ==
    SelectSeq(coll, LAMBDA d : Get(d, "case_number") = caseNumber)

\* getClientDocuments(clientId, caseNumber): the case filter only when given
getClientDocumentsOfCase(clientId, caseNumber, fail) ==
    IF fail THEN <<>>
    ELSE IF Falsy(caseNumber) THEN OfClient(documents, clientId)
    ELSE OfCase(OfClient(documents, clientId), caseNumber)

\* each read is one request, which fails or not, and then the call settles
appwrite_getClients ==
    /\ pc = "idle"
    /\ \E fail \in FaultChoice :
          /\ result' = getClients(fail)
          /\ faults' = Fault(fail, <<"listDocuments", "getClients">>)
    /\ op' = "getClients"
    /\ arg' = [clientId |-> "none"]
    /\ pc' = "done"
    /\ UNCHANGED <<remote, local, queue, calls>>

appwrite_readServeAttempts(limit, offset) ==
    /\ pc = "idle"
    /\ \E fail \in FaultChoice :
          /\ result' = Returned(getServeAttempts(limit, offset, fail))
          /\ faults' = Fault(fail, <<"listDocuments", "getServeAttempts">>)
    /\ op' = "getServeAttempts"
    /\ arg' = [limit |-> limit, offset |-> offset]
    /\ pc' = "done"
    /\ UNCHANGED <<remote, local, queue, calls>>

appwrite_getClientServeAttempts(clientId) ==
    /\ pc = "idle"
    /\ \E fail \in FaultChoice :
          /\ result' = Returned(getClientServeAttempts(clientId, fail))
          /\ faults' = Fault(fail, <<"listDocuments", "getClientServeAttempts">>)
    /\ op' = "getClientServeAttempts"
    /\ arg' = [clientId |-> clientId]
    /\ pc' = "done"
    /\ UNCHANGED <<remote, local, queue, calls>>

appwrite_getClientCases(clientId) ==
    /\ pc = "idle"
    /\ \E fail \in FaultChoice :
          /\ result' = Returned(getClientCases(clientId, fail))
          /\ faults' = Fault(fail, <<"listDocuments", "getClientCases">>)
    /\ op' = "getClientCases"
    /\ arg' = [clientId |-> clientId]
    /\ pc' = "done"
    /\ UNCHANGED <<remote, local, queue, calls>>

appwrite_getClientDocuments(clientId, caseNumber) ==
    /\ pc = "idle"
    /\ \E fail \in FaultChoice :
          /\ result' = Returned(getClientDocumentsOfCase(clientId, caseNumber, fail))
          /\ faults' = Fault(fail, <<"listDocuments", "getClientDocuments">>)
    /\ op' = "getClientDocuments"
    /\ arg' = [clientId |-> clientId, caseNumber |-> caseNumber]
    /\ pc' = "done"
    /\ UNCHANGED <<remote, local, queue, calls>>

\* resolveClientId(fallbackClientId): up to three list requests, in the
\* order of the source; the first non-empty answer returns the id, and the
\* catch around the whole body returns null
Lookup(coll, id, fail, request, found, next) ==
    /\ faults' = Fault(fail, <<request, id>>)
    /\ calls' = Append(calls, Call(request, id))
    /\ IF fail
       THEN pc' = "done" /\ result' = Returned(Null)
       ELSE IF OfClient(coll, id) # <<>>
       THEN pc' = "done" /\ result' = Returned(found)
       ELSE IF next = "done"
       THEN pc' = "done" /\ result' = Returned(Null)
       ELSE pc' = next /\ result' = result

\* a variant that lets the failed request reach the caller
appwrite_resolveClientId_rethrow(fallbackClientId) ==
    /\ pc = "idle"
    /\ op' = "resolveClientId"
    /\ arg' = [clientId |-> fallbackClientId]
    /\ \E fail \in FaultChoice :
          IF fail
          THEN /\ faults' = Fault(fail, <<"listDocuments:cases", fallbackClientId>>)
               /\ calls' = Append(calls, Call("listDocuments:cases", fallbackClientId))
               /\ pc' = "done"
               /\ result' = Thrown("error")
          ELSE Lookup(cases, fallbackClientId, fail, "listDocuments:cases",
                      fallbackClientId, "res_documents")
    /\ UNCHANGED <<remote, local, queue>>

appwrite_resolveClientId(fallbackClientId) ==
    /\ pc = "idle"
    /\ op' = "resolveClientId"
    /\ arg' = [clientId |-> fallbackClientId]
    /\ \E fail \in FaultChoice :
          Lookup(cases, fallbackClientId, fail, "listDocuments:cases",
                 fallbackClientId, "res_documents")
    /\ UNCHANGED <<remote, local, queue>>

\* a variant that gives up after the documents
appwrite_resolveClientId_documents_last ==
    /\ pc = "res_documents"
    /\ \E fail \in FaultChoice :
          Lookup(documents, arg.clientId, fail, "listDocuments:documents",
                 arg.clientId, "done")
    /\ UNCHANGED <<remote, local, queue, op, arg>>

appwrite_resolveClientId_documents ==
    /\ pc = "res_documents"
    /\ \E fail \in FaultChoice :
          Lookup(documents, arg.clientId, fail, "listDocuments:documents",
                 arg.clientId, "res_serves")
    /\ UNCHANGED <<remote, local, queue, op, arg>>

appwrite_resolveClientId_serves ==
    /\ pc = "res_serves"
    /\ \E fail \in FaultChoice :
          Lookup(serves, arg.clientId, fail, "listDocuments:serves",
                 arg.clientId, "done")
    /\ UNCHANGED <<remote, local, queue, op, arg>>

\* the store: two clients; the first n documents of each collection belong
\* to c1, the others to c2; documents carry the case number of their upload
InitRead ==
    /\ clients \in {<<>>, <<ClientDoc("c1", "a@x"), ClientDoc("c2", "b@x")>>}
    /\ \E n \in 0..MaxCases :
          cases = [i \in 1..MaxCases |-> CaseDoc("k" \o Nat2Str(i), Owner(i, n))]
    /\ \E n \in 0..MaxServes :
          serves = [i \in 1..MaxServes |->
                       ServeDoc("s" \o Nat2Str(i), Owner(i, n), i, "img")]
    /\ \E n \in 0..MaxDocs : \E number \in {"n0", "n1"} :
          documents = [i \in 1..MaxDocs |->
                          [case_number |-> number]
                             @@ DocumentDoc("d" \o Nat2Str(i), Owner(i, n), ValidFile(i))]
    /\ files = {ValidFile(i) : i \in 1..MaxDocs}
    /\ localServes = <<>>
    /\ events = 0
    /\ stateClients = <<>>
    /\ localClients = stateClients
    /\ loads = <<>>
    /\ recentServes = <<>>
    /\ timers = 0
    /\ outbox = <<>>
    /\ pc = "idle"
    /\ op = "none"
    /\ arg = [clientId |-> "none"]
    /\ queue = <<>>
    /\ calls = <<>>
    /\ result = Pending
    /\ faults = {}

ReadClients == {"c1", "c2", "c9"}

NextRead ==
    \/ appwrite_getClients
    \/ \E limit \in {1, DefaultLimit} : \E offset \in {0, 1} :
          appwrite_readServeAttempts(limit, offset)
    \/ \E c \in ReadClients : appwrite_getClientServeAttempts(c)
    \/ \E c \in ReadClients : appwrite_getClientCases(c)
    \/ \E c \in ReadClients : \E number \in {Undefined, "", "n0"} :
          appwrite_getClientDocuments(c, number)
    \/ \E c \in ReadClients : appwrite_resolveClientId(c)
    \/ appwrite_resolveClientId_documents
    \/ appwrite_resolveClientId_serves

SpecRead == InitRead /\ [][NextRead]_vars

---------------------------------------------------------------------------
(* Claims about the read operations (SpecRead).                            *)

ReadOperations ==
    {"getClients", "getServeAttempts", "getClientServeAttempts",
     "getClientCases", "getClientDocuments"}

\* C16: every read of the gateway settles by returning, and returns the
\* empty list when its request failed.
C16_ReadsNeverThrow ==
    (pc = "done" /\ op \in ReadOperations)
    => /\ result.status = "returned"
       /\ faults # {} => result.value = <<>>

LookupOrder == <<"listDocuments:cases", "listDocuments:documents", "listDocuments:serves">>
Referencing(request, id) ==
    CASE request = "listDocuments:cases" -> OfClient(cases, id)
      [] request = "listDocuments:documents" -> OfClient(documents, id)
      [] request = "listDocuments:serves" -> OfClient(serves, id)
Hits(id) == {i \in 1..3 : Referencing(LookupOrder[i], id) # <<>>}
FirstHit(id) == CHOOSE i \in Hits(id) : \A j \in Hits(id) : i <= j

\* C17: when no request fails, resolveClientId(id) asks the cases, then
\* the documents, then the serve attempts, stops at the first collection
\* holding a record of id, and returns id if one of them does and null if
\* none does.
C17_ResolveFindsAnyReference ==
    (Finished("resolveClientId") /\ faults = {})
    => LET id == arg.clientId
           asked == IF Hits(id) = {} THEN 3 ELSE FirstHit(id)
       IN /\ calls = [i \in 1..asked |-> Call(LookupOrder[i], id)]
          /\ result = Returned(IF Hits(id) = {} THEN Null ELSE id)

\* an id referenced only by serve attempts was resolved by the third request
C17_Witness ==
    /\ Finished("resolveClientId") /\ faults = {}
    /\ Hits(arg.clientId) = {3}
    /\ Len(calls) = 3
    /\ result = Returned(arg.clientId)

\* C18: resolveClientId always settles by returning: null when no record
\* references the id, and null when one of its requests failed.
C18_ResolveNeverThrows ==
    Finished("resolveClientId")
    => /\ result.status = "returned"
       /\ Hits(arg.clientId) = {} => result.value = Null
       /\ faults # {} => result.value = Null

\* the first request failed for an id that the store references
C18_Witness ==
    /\ Finished("resolveClientId")
    /\ faults = {<<"listDocuments:cases", arg.clientId>>}
    /\ Hits(arg.clientId) # {}
    /\ result = Returned(Null)

---------------------------------------------------------------------------
(* Claims about the persisted coordinates (SpecCreate).                    *)

GivenCoordinates == GetCoordinates(arg.serveData)
IsPair(c) == c.type = "object" /\ {"latitude", "longitude"} \subseteq DOMAIN c
PairText(c) == NumberToString(c.latitude) \o "," \o NumberToString(c.longitude)

\* C19 as stated: a created serve attempt stores the pair {latitude: a,
\* longitude: b} as the string "a,b" and stores every string as it is given.
C19_CoordinatesNormalized ==
    Created
    => /\ IsPair(GivenCoordinates)
            => arg.response.coordinates = PairText(GivenCoordinates)
       /\ GivenCoordinates.type = "string"
            => arg.response.coordinates = GivenCoordinates.value

\* C19 amended: a created serve attempt stores the pair {latitude: a,
\* longitude: b} as the string "a,b" (40.5 and -73.9 as "40.5,-73.9"), stores
\* every non-empty string as it is given, and stores "0,0" for the empty
\* string.
C19_NonEmptyCoordinatesNormalized ==
    Created
    => /\ IsPair(GivenCoordinates)
            => arg.response.coordinates = PairText(GivenCoordinates)
       /\ GivenCoordinates = CoordinatePair(4050, -7390)
            => arg.response.coordinates = "40.5,-73.9"
       /\ (GivenCoordinates.type = "string" /\ GivenCoordinates.value # "")
            => arg.response.coordinates = GivenCoordinates.value
       /\ GivenCoordinates = CoordinateString("")
            => arg.response.coordinates = "0,0"
       /\ Doc(serves, "new1").coordinates = arg.response.coordinates

\* the pair (40.5, -73.9) was stored as "40.5,-73.9"
C19_Witness ==
    /\ Created /\ pc = "done"
    /\ GivenCoordinates = CoordinatePair(4050, -7390)
    /\ Doc(serves, "new1").coordinates = "40.5,-73.9"

---------------------------------------------------------------------------
(* The orchestration functions of AnimatedRoutes (App.tsx) and             *)
(* Dashboard.handleSaveServe.  A function that awaits a gateway function   *)
(* of several steps starts it and goes on when it has settled.             *)

\* the record AnimatedRoutes keeps for a client document
ClientData(doc) == [id |-> Id(doc), name |-> doc.name, email |-> doc.email]

\* appwrite.createClient, then setClients(prev => [...prev, clientData]),
\* a refresh in 500 ms, return clientData; the catch rethrows
App_createClient(client) ==
    /\ pc = "idle"
    /\ \E fail \in FaultChoice :
          LET clientId == "c" \o Nat2Str(Len(clients) + 1)
              newClient == ("$id" :> clientId) @@
                           [name |-> client.name, email |-> client.email]
          IN /\ faults' = Fault(fail, <<"createDocument:clients", clientId>>)
             /\ calls' = Append(calls, Call("createDocument:clients", clientId))
             /\ arg' = [clientId |-> clientId, client |-> client]
             /\ IF fail
                THEN /\ result' = Thrown("error")
                     /\ UNCHANGED <<clients, stateClients, timers>>
                ELSE /\ clients' = Append(clients, newClient)
                     /\ stateClients' = Append(stateClients, ClientData(newClient))
                     /\ timers' = timers + 1
                     /\ result' = Returned(ClientData(newClient))
    \* useEffect(() => localStorage.setItem("serve-tracker-clients", ...), [clients])
    /\ localClients' = stateClients'
    /\ op' = "App.createClient"
    /\ pc' = "done"
    /\ UNCHANGED <<cases, serves, documents, files, localServes, events, loads,
                   recentServes, outbox, queue>>

\* appwrite.updateClient(id, {name: name || '', email: email || '', ...}), then
\* setClients(prev => prev.map(...)), a refresh in 500 ms, return true
App_updateClient(updatedClient) ==
    /\ pc = "idle"
    /\ \E fail \in FaultChoice :
          LET clientId == updatedClient.id
              throws == fail \/ ~Has(clients, clientId)
              response == Patched(Doc(clients, clientId),
                                  [name |-> Or(Get(updatedClient, "name"), ""),
                                   email |-> Or(Get(updatedClient, "email"), "")])
          IN /\ faults' = Fault(fail, <<"updateDocument:clients", clientId>>)
             /\ calls' = Append(calls, Call("updateDocument:clients", clientId))
             /\ arg' = [clientId |-> clientId, client |-> updatedClient]
             /\ IF throws
                THEN /\ result' = Thrown("error")
                     /\ UNCHANGED <<clients, stateClients, timers>>
                ELSE /\ clients' = Replace(clients, clientId, response)
                     /\ stateClients' =
                           [i \in DOMAIN stateClients |->
                               IF stateClients[i].id = clientId
                               THEN ClientData(response) ELSE stateClients[i]]
                     /\ timers' = timers + 1
                     /\ result' = Returned("true")
    \* useEffect(() => localStorage.setItem("serve-tracker-clients", ...), [clients])
    /\ localClients' = stateClients'
    /\ op' = "App.updateClient"
    /\ pc' = "done"
    /\ UNCHANGED <<cases, serves, documents, files, localServes, events, loads,
                   recentServes, outbox, queue>>

\* const { clients: appwriteClients } = await loadDataFromAppwrite(): the
\* utility is imported from outside the sources at hand; it is taken to be the
\* full fetch the specification describes, which yields the clients of the
\* store at the time of the request, or throws
loadDataFromAppwrite(fail) ==
    IF fail THEN Thrown("error")
    ELSE Returned([i \in DOMAIN clients |-> ClientData(clients[i])])

\* loadAppwriteData() up to its await: the request is on its way
StartLoad(site) ==
    \E fail \in FaultChoice :
       /\ faults' = Fault(fail, <<"loadDataFromAppwrite", site>>)
       /\ loads' = Append(loads, loadDataFromAppwrite(fail))

\* setTimeout(() => { loadAppwriteData() }, 500) fires
App_loadAppwriteData ==
    /\ timers > 0
    /\ timers' = timers - 1
    /\ StartLoad("timer")
    /\ UNCHANGED <<remote, localServes, events, stateClients, localClients,
                   recentServes, outbox, pc, op, arg, queue, calls, result>>

\* the callback of setupRealtimeSubscription: a change of a document of the
\* four collections, made by this session or another one, was notified
App_realtime ==
    /\ Len(loads) < MaxLoads
    /\ StartLoad("realtime")
    /\ UNCHANGED <<remote, localServes, events, stateClients, localClients,
                   recentServes, timers, outbox, pc, op, arg, queue, calls, result>>

\* if (appwriteClients.length > 0) { setClients(...); localStorage.setItem(...) }
\* a throw is caught and logged
Applies(answer) == answer.status = "returned" /\ Len(answer.value) > 0

\* loadAppwriteData() after its await: the answers arrive in any order
App_loadAppwriteData_finish ==
    \E i \in DOMAIN loads :
       /\ loads' = [j \in 1..(Len(loads) - 1) |-> IF j < i THEN loads[j] ELSE loads[j + 1]]
       /\ stateClients' = IF Applies(loads[i]) THEN loads[i].value ELSE stateClients
       /\ localClients' = stateClients'
       /\ UNCHANGED <<remote, localServes, events, recentServes, timers, outbox,
                      ctl>>

\* createServe after `await appwrite.createServeAttempt(serveData)`: a throw
\* returns false; otherwise one more email is sent and true is returned
App_createServe_finish ==
    /\ pc = "done" /\ op = "createServeAttempt"
    /\ op' = "App.createServe"
    /\ arg' = [serveData |-> arg.serveData, gateway |-> result]
    /\ IF result.status = "thrown"
       THEN /\ result' = Returned("false")
            /\ UNCHANGED <<outbox, faults>>
       ELSE \E execution \in Executions :
               LET emailData ==
                      [to |-> One(Or(Get(arg.serveData, "clientEmail"),
                                     "info@justlegalsolutions.org")),
                       subject |-> "New Serve Attempt Created - "
                                   \o Or(Get(arg.serveData, "caseNumber"), "Unknown Case")]
               IN /\ outbox' = sendEmailViaFunction(emailData, execution).outbox
                  /\ faults' = Fault(execution # "completed", <<"createExecution", "App">>)
                  /\ result' = Returned("true")
    /\ UNCHANGED <<remote, localServes, events, stateClients, localClients, loads, recentServes,
                   timers, pc, queue, calls>>

\* the payload updateServe builds from the record it is given
UpdatePayload(serveData) ==
    [client_id |-> Get(serveData, "clientId"),
     case_number |-> Or(Get(serveData, "caseNumber"), Null),
     case_name |-> Or(Get(serveData, "caseName"), "Unknown Case"),
     status |-> Or(Get(serveData, "status"), "unknown"),
     notes |-> Or(Get(serveData, "notes"), ""),
     coordinates |-> Or(Get(serveData, "coordinates"), Null),
     image_data |-> Or(Get(serveData, "imageData"), Null),
     timestamp |-> OrNum(GetNum(serveData, "timestamp"), Now),
     attempt_number |-> OrNum(GetNum(serveData, "attemptNumber"), 1)]

\* const updatedServe = await appwrite.updateServeAttempt(serveData.id, payload)
App_updateServe(serveData) ==
    appwrite_updateServeAttempt(Get(serveData, "id"), UpdatePayload(serveData))

\* updateServe after the await: true, or false from the catch
App_updateServe_finish ==
    /\ pc = "done" /\ op = "updateServeAttempt"
    /\ "case_number" \in DOMAIN arg.serveData
    /\ op' = "App.updateServe"
    /\ result' = Returned(IF result.status = "thrown" THEN "false" ELSE "true")
    /\ UNCHANGED <<remote, local, pc, arg, queue, calls, faults>>

\* await appwrite.updateServeAttempt(updatedServe.id, updatedServe)
Dashboard_handleSaveServe(updatedServe) ==
    appwrite_updateServeAttempt(updatedServe.id, updatedServe)

\* handleSaveServe after the await: the record replaces the one of its id in
\* recentServes and true is returned; the catch returns false
Dashboard_handleSaveServe_finish ==
    /\ pc = "done" /\ op = "updateServeAttempt"
    /\ "id" \in DOMAIN arg.serveData
    /\ op' = "Dashboard.handleSaveServe"
    /\ IF result.status = "thrown"
       THEN /\ result' = Returned("false")
            /\ recentServes' = recentServes
       ELSE /\ result' = Returned("true")
            /\ recentServes' =
                  [i \in DOMAIN recentServes |->
                      IF recentServes[i].id = arg.serveData.id
                      THEN arg.serveData ELSE recentServes[i]]
    /\ UNCHANGED <<remote, localServes, events, stateClients, localClients, loads, timers, outbox,
                   pc, arg, queue, calls, faults>>

\* the store and the memory the orchestration starts from
StoredClients == <<ClientDoc("c1", "a@x"), ClientDoc("c2", "b@x")>>
StoredServes == <<ServeDoc("s1", "c1", 1, "img"), ServeDoc("s2", "c2", 2, "")>>
LoadedClients == [i \in DOMAIN StoredClients |-> ClientData(StoredClients[i])]
LoadedServes ==
    [i \in DOMAIN StoredServes |->
        FormatServe(OrderDesc(StoredServes)[i],
                    Or(Get(OrderDesc(StoredServes)[i], "image_data"), Null))]

\* the serve cache an earlier session left: a serve attempt deleted since
CachedServes == SyncBatch(<<ServeDoc("s0", "c1", 0, "")>>)

InitApp ==
    /\ clients = StoredClients
    /\ cases = <<CaseDoc("k1", "c1")>>
    /\ serves = StoredServes
    /\ documents \in {<<>>, <<DocumentDoc("d1", "c1", ValidFile(1))>>}
    /\ files \in {{}, {ValidFile(1)}}
    /\ localServes = CachedServes
    /\ events = 0
    /\ stateClients = LoadedClients
    /\ localClients = stateClients
    /\ loads = <<>>
    /\ recentServes = LoadedServes
    /\ timers = 0
    /\ outbox = <<>>
    /\ pc = "idle"
    /\ op = "none"
    /\ arg = [clientId |-> "none", caller |-> "none"]
    /\ queue = <<>>
    /\ calls = <<>>
    /\ result = Pending
    /\ faults = {}

NewClients == {[name |-> "New", email |-> e] : e \in {"n@x", ""}}
ClientEdits ==
    {[id |-> id, name |-> n, email |-> "a@x"] : id \in {"c1", "c9"}, n \in {"Renamed", ""}}
ServeInputs ==
    {d \in CreateInputs :
        /\ Get(d, "clientName") = "Bob"
        /\ Get(d, "address") = "12 Main St"
        /\ Get(d, "imageData") = Undefined
        /\ d.status = "failed"
        /\ GetCoordinates(d) = CoordinatePair(4050, -7390)}
ServeEdits ==
    {[LoadedServes[i] EXCEPT !.id = IF known THEN @ ELSE "s9",
                             !.notes = notes, !.caseNumber = number] :
        i \in DOMAIN LoadedServes, known \in BOOLEAN,
        notes \in {"t0", "t1"}, number \in {"n0", "n1"}}

NextApp ==
    \/ \E client \in NewClients : App_createClient(client)
    \/ \E updatedClient \in ClientEdits : App_updateClient(updatedClient)
    \/ App_loadAppwriteData
    \/ App_loadAppwriteData_finish
    \/ \E c \in {"c1"} : App_deleteClient(c)
    \/ App_deleteClient_serve
    \/ App_deleteClient_listDocuments
    \/ App_deleteClient_document
    \/ App_deleteClient_gateway
    \/ appwrite_deleteClient_case
    \/ appwrite_deleteClient_listServes
    \/ appwrite_deleteClient_serve
    \/ appwrite_deleteClient_listDocuments
    \/ appwrite_deleteClient_document
    \/ appwrite_deleteClient_record
    \/ \E serveData \in ServeInputs : appwrite_createServeAttempt(serveData)
    \/ appwrite_createServeAttempt_create
    \/ appwrite_createServeAttempt_notify
    \/ App_createServe_finish
    \/ \E serveData \in ServeEdits : App_updateServe(serveData)
    \/ \E updatedServe \in ServeEdits : Dashboard_handleSaveServe(updatedServe)
    \/ appwrite_updateServeAttempt_write
    \/ appwrite_updateServeAttempt_notify
    \/ appwrite_updateServeAttempt_sync
    \/ App_updateServe_finish
    \/ Dashboard_handleSaveServe_finish
    \/ App_deleteServe("s1")

SpecApp == InitApp /\ [][NextApp]_vars

---------------------------------------------------------------------------
(* Claims about the orchestration (SpecApp).                               *)

Orchestration ==
    {"App.createClient", "App.updateClient", "App.deleteClient", "App.createServe",
     "App.updateServe", "App.deleteServe", "Dashboard.handleSaveServe"}
Settled == op \in Orchestration /\ (pc = "done" \/ op = "App.deleteServe")

\* the requests whose failure is the failure of the remote call of the operation
RemoteCallFailed ==
    \E f \in faults :
       CASE op = "App.createClient" -> f[1] = "createDocument:clients"
         [] op = "App.updateClient" -> f[1] = "updateDocument:clients"
         [] op = "App.deleteClient" ->
               f[1] = "deleteServeAttempt" \/ f = <<"deleteDocument", arg.clientId>>
         [] op = "App.createServe" -> f[1] = "createDocument"
         [] op \in {"App.updateServe", "Dashboard.handleSaveServe"} ->
               f[1] \in {"getDocument", "updateDocument"}
         [] op = "App.deleteServe" -> f = <<"deleteDocument", Nat2Str(Len(calls))>>
         [] OTHER -> FALSE

\* C20: when the remote call of an orchestration function has failed, the
\* clients and the recent serves held in memory are as they were before the
\* call, and the function threw or returned false.
C20_FailedRemoteCallIsReported ==
    (Settled /\ RemoteCallFailed)
    => /\ stateClients = LoadedClients
       /\ recentServes = LoadedServes
       /\ result \in {Thrown("error"), Returned("false")}

\* the step in which a client mutation of the orchestration settles with success
ClientMutationSucceeds ==
    /\ pc # "done" /\ pc' = "done"
    /\ op' \in {"App.createClient", "App.updateClient", "App.deleteClient"}
    /\ result'.status = "returned"
    /\ op' # "App.createClient" => result'.value = "true"

\* the clients in memory after the direct update of that step
DirectlyUpdated ==
    LET id == arg'.clientId
        kept == {i \in DOMAIN stateClients' : stateClients'[i].id = id}
    IN CASE op' = "App.createClient" ->
               stateClients' = Append(stateClients, result'.value)
         [] op' = "App.updateClient" ->
               \A i \in kept : stateClients'[i] = ClientData(Doc(clients', id))
         [] op' = "App.deleteClient" -> kept = {}

\* C21: the step in which createClient, updateClient or deleteClient of the
\* orchestration settles with success updates the clients in memory and
\* schedules one more delayed refresh.
C21_ClientMutationsScheduleRefresh ==
    [][ClientMutationSucceeds => (DirectlyUpdated /\ timers' = timers + 1)]_vars

\* the records a write to the serve cache has carried over from the array
\* stored before it
CarriedOver == Range(localServes) \cap Range(localServes')

\* C22: a write to the serve cache keeps no record of the array stored
\* before it other than the records the store holds now, and a write to the
\* client cache stores the clients in memory.
C22_CacheWritesReplace ==
    [][/\ localServes' # localServes
          => CarriedOver \subseteq Range(SyncBatch(Page(OrderDesc(serves'), SyncWindow, 0)))
       /\ localClients' # localClients => localClients' = stateClients']_vars

---------------------------------------------------------------------------
(* appwrite.sendEmailViaFunction(emailData) on its own: the recipients are *)
(* one address or a list of at most MaxRecipients addresses.               *)

MaxRecipients == 2

\* `undefined.toLowerCase()` throws inside the try of sendEmailViaFunction
Comparable(to) == IF to.isArray THEN TRUE ELSE to.value # Undefined

\* the whole function: the recipients, the execution, {success, message}
appwrite_sendEmailViaFunction ==
    /\ pc = "idle"
    /\ IF Comparable(arg.emailData.to)
       THEN \E execution \in Executions :
               LET out == sendEmailViaFunction(arg.emailData, execution)
               IN /\ outbox' = out.outbox
                  /\ result' = Returned([success |-> out.success])
                  /\ faults' = Fault(execution # "completed", <<"createExecution", "">>)
       ELSE /\ result' = Returned([success |-> FALSE])
            /\ UNCHANGED <<outbox, faults>>
    /\ op' = "sendEmailViaFunction"
    /\ pc' = "done"
    /\ UNCHANGED <<remote, localServes, events, stateClients, localClients, loads,
                   recentServes, timers, arg, queue, calls>>

Addresses ==
    {BusinessEmail, "Info@JustLegalSolutions.org", "a@x", "A@x", "b@x"}
RecipientLists ==
    UNION {[1..n -> Addresses] : n \in 0..MaxRecipients}
EmailData(to) == [to |-> to, subject |-> "Subject"]

InitEmail ==
    /\ clients = <<>> /\ cases = <<>> /\ serves = <<>> /\ documents = <<>>
    /\ files = {}
    /\ localServes = <<>>
    /\ events = 0
    /\ stateClients = <<>>
    /\ localClients = stateClients
    /\ loads = <<>>
    /\ recentServes = <<>>
    /\ timers = 0
    /\ outbox = <<>>
    /\ pc = "idle"
    /\ op = "none"
    /\ \/ \E a \in Addresses \cup {Undefined} : arg = [emailData |-> EmailData(One(a))]
       \/ \E l \in RecipientLists : arg = [emailData |-> EmailData(Many(l))]
    /\ queue = <<>>
    /\ calls = <<>>
    /\ result = Pending
    /\ faults = {}

NextEmail == appwrite_sendEmailViaFunction

SpecEmail == InitEmail /\ [][NextEmail]_vars

---------------------------------------------------------------------------
(* Claims about the recipients (SpecEmail).                                *)

\* the addresses that are the business address up to the case of letters
IsBusiness(address) ==
    address \in {"info@justlegalsolutions.org", "Info@JustLegalSolutions.org"}
GivenRecipients ==
    IF arg.emailData.to.isArray THEN arg.emailData.to.value
    ELSE <<arg.emailData.to.value>>
BusinessGiven == \E i \in DOMAIN GivenRecipients : IsBusiness(GivenRecipients[i])
Sent == outbox[Len(outbox)].to

\* C23: the recipients sent to the function are the caller's recipients in
\* their order, followed by the business address when none of them is the
\* business address up to the case of letters, and by nothing otherwise.
C23_BusinessAddressAppendedOnce ==
    (Finished("sendEmailViaFunction") /\ Comparable(arg.emailData.to))
    => /\ Len(outbox) = 1
       /\ SubSeq(Sent, 1, Len(GivenRecipients)) = GivenRecipients
       /\ BusinessGiven => Sent = GivenRecipients
       /\ ~BusinessGiven => Sent = Append(GivenRecipients, BusinessEmail)
       /\ \E i \in DOMAIN Sent : IsBusiness(Sent[i])

\* a list that names the business address in capitals was sent as it was
C23_Witness ==
    /\ Finished("sendEmailViaFunction")
    /\ arg.emailData.to.isArray
    /\ arg.emailData.to.value = <<"a@x", "Info@JustLegalSolutions.org">>
    /\ Sent = <<"a@x", "Info@JustLegalSolutions.org">>

---------------------------------------------------------------------------
(* Claims about the client name of a created serve attempt (SpecCreate).   *)

NoNameGiven ==
    /\ op = "createServeAttempt"
    /\ ValidClient(arg.serveData)
    /\ Falsy(Get(arg.serveData, "clientName"))
Owning == arg.serveData.clientId
NameLookupFailed ==
    <<"getDocument:clients", Owning>> \in faults \/ ~Has(clients, Owning)
ResolvedName ==
    IF NameLookupFailed \/ Falsy(Get(Doc(clients, Owning), "name"))
    THEN "Unknown Client"
    ELSE Doc(clients, Owning).name

\* C24: when createServeAttempt is given no client name, the serve attempt
\* it creates carries the name of the owning client record, or "Unknown
\* Client" when the lookup failed or the record has no name; only a failed
\* createDocument keeps the serve attempt from being created.
C24_UnresolvedNameIsUnknownClient ==
    NoNameGiven
    => /\ (pc = "done" /\ ~Created) => <<"createDocument", "new1">> \in faults
       /\ Created => Doc(serves, "new1").client_name = ResolvedName

\* the lookup of the client failed and the serve attempt was created for
\* "Unknown Client"
C24_Witness ==
    /\ NoNameGiven /\ Created /\ pc = "done"
    /\ <<"getDocument:clients", Owning>> \in faults
    /\ Has(clients, Owning)
    /\ Doc(serves, "new1").client_name = "Unknown Client"

---------------------------------------------------------------------------
(* updateServeAttempt while another session writes to the same document.   *)

MaxExternal == 1

External == SelectSeq(calls, LAMBDA c : c.fn = "updateDocument:external")

\* databases.updateDocument issued by another session: the store takes it
\* whenever it arrives
External_updateDocument(docId, field) ==
    /\ Len(External) < MaxExternal
    /\ Has(serves, docId)
    /\ serves' = Replace(serves, docId, Patched(Doc(serves, docId), (field :> "ext")))
    /\ calls' = Append(calls, [fn |-> "updateDocument:external", id |-> docId,
                               data |-> (field :> "ext")])
    /\ UNCHANGED <<clients, cases, documents, files, local, pc, op, arg, queue,
                   result, faults>>

NextRace ==
    \/ \E serveId \in {"s1", "s2"} : \E serveData \in UpdateInputs :
          appwrite_updateServeAttempt(serveId, serveData)
    \/ appwrite_updateServeAttempt_write
    \/ appwrite_updateServeAttempt_notify
    \/ appwrite_updateServeAttempt_sync
    \/ \E field \in {"notes", "status"} : External_updateDocument("s1", field)

SpecRace == InitUpdate /\ [][NextRace]_vars

---------------------------------------------------------------------------
(* Claims about the race (SpecRace).                                       *)

\* the fields another session wrote after the fetch and before the write
Interleaved ==
    {f \in {"notes", "status"} :
        \E i \in DOMAIN calls :
           /\ calls[i].fn = "updateDocument:external"
           /\ calls[i].id = arg.docId
           /\ f \in DOMAIN calls[i].data
           /\ arg.originalDoc[f] # "ext"
           /\ \E j \in DOMAIN calls : i < j /\ calls[j].fn = "updateDocument"}
Supplied == {k \in DiffFields : Get(arg.serveData, k) # Undefined}

\* C25: updateServeAttempt writes the difference between its input and the
\* document it fetched, whatever the store holds at the time of the write:
\* a supplied field equal to the fetched value is left as another session
\* wrote it in between, and the update still returns the document.
C25_UpdateWritesDiffAgainstFetched ==
    Written
    => /\ Writes[1].data = DiffOf(arg.serveData, arg.originalDoc)
       /\ \A k \in Supplied :
             arg.response[StoredField(k)] =
                IF arg.serveData[k] # arg.originalDoc[StoredField(k)]
                THEN arg.serveData[k]
                ELSE IF StoredField(k) \in Interleaved THEN "ext"
                ELSE arg.originalDoc[StoredField(k)]
       /\ pc = "done" => result.status = "returned"

\* the update returned the document although the notes the caller supplied
\* are not the stored ones: another session wrote them after the fetch
C25_Witness ==
    /\ Written /\ pc = "done"
    /\ result.status = "returned"
    /\ "notes" \in Supplied /\ "notes" \in Interleaved
    /\ Doc(serves, arg.docId).notes = "ext"
    /\ arg.serveData.notes # "ext"

---------------------------------------------------------------------------
(* Claims about what createServe reports (SpecApp).                        *)

\* what appwrite.createServeAttempt gave back to its caller
GatewayResult == IF op = "App.createServe" THEN arg.gateway ELSE result
CreateSettled == pc = "done" /\ op \in {"createServeAttempt", "App.createServe"}

\* C26: when createServeAttempt has returned a record, the remote store
\* holds the serve attempt created for the client of the call, and
\* createServe reports success only then.
C26_ReturnedServeIsStored ==
    /\ (CreateSettled /\ GatewayResult.status = "returned")
          => /\ Has(serves, "new1")
             /\ Doc(serves, "new1").client_id = arg.serveData.clientId
    /\ (CreateSettled /\ op = "App.createServe" /\ result = Returned("true"))
          => Has(serves, "new1")

---------------------------------------------------------------------------
(* Client deletion over a store of about DefaultLimit serve attempts: the  *)
(* oldest serve attempt is the one of c1.                                  *)

MaxOlder == 2

ManyServes == (DefaultLimit - 1)..(DefaultLimit + MaxOlder)

InitDeleteMany ==
    /\ clients = <<ClientDoc("c1", "a@x"), ClientDoc("c2", "b@x")>>
    /\ cases \in {<<>>, <<CaseDoc("k1", "c1")>>}
    /\ \E n \in ManyServes : serves = ListedServes(n, FALSE, {}, "")
    /\ documents \in {<<>>, <<DocumentDoc("d1", "c1", ValidFile(1))>>}
    /\ files = {ValidFile(1)}
    /\ localServes = <<>>
    /\ events = 0
    /\ stateClients = [i \in DOMAIN clients |-> [id |-> Id(clients[i])]]
    /\ localClients = stateClients
    /\ loads = <<>>
    /\ recentServes = <<>>
    /\ timers = 0
    /\ outbox = <<>>
    /\ pc = "idle"
    /\ op = "none"
    /\ arg = [clientId |-> "none", caller |-> "none"]
    /\ queue = <<>>
    /\ calls = <<>>
    /\ result = Pending
    /\ faults = {}

SpecDeleteMany == InitDeleteMany /\ [][NextDelete]_vars

\* C27: when App.deleteClient(c) has returned true and no request failed,
\* the store holds no Serve Attempt, Case or Document of c.
C27_AppDeleteLeavesNothing ==
    (Finished("App.deleteClient") /\ result = Returned("true") /\ faults = {})
    => /\ Remaining(serves) = {}
       /\ Remaining(cases) = {}
       /\ Remaining(documents) = {}

---------------------------------------------------------------------------
(* The client collection over several mutations: the delayed refreshes,    *)
(* the realtime notifications and the first load of the mounted component. *)

\* createClient or updateClient has settled and the user goes on
App_nextEvent ==
    /\ pc = "done"
    /\ Len(calls) < MaxOps
    /\ pc' = "idle"
    /\ UNCHANGED <<remote, local, op, arg, queue, calls, result, faults>>

\* the component has mounted on the clients cached by an earlier session
\* and performInitialSync has called loadAppwriteData
InitRefresh ==
    /\ clients \in {StoredClients, <<>>}
    /\ cases = <<>> /\ serves = <<>> /\ documents = <<>>
    /\ files = {}
    /\ localServes = <<>>
    /\ events = 0
    /\ stateClients = LoadedClients
    /\ localClients = stateClients
    /\ loads = <<loadDataFromAppwrite(FALSE)>>
    /\ recentServes = <<>>
    /\ timers = 0
    /\ outbox = <<>>
    /\ pc = "idle"
    /\ op = "none"
    /\ arg = [clientId |-> "none", caller |-> "none"]
    /\ queue = <<>>
    /\ calls = <<>>
    /\ result = Pending
    /\ faults = {}

NextRefresh ==
    \/ \E client \in NewClients : App_createClient(client)
    \/ \E updatedClient \in ClientEdits : App_updateClient(updatedClient)
    \/ App_nextEvent
    \/ App_loadAppwriteData
    \/ App_realtime
    \/ App_loadAppwriteData_finish

SpecRefresh == InitRefresh /\ [][NextRefresh]_vars

---------------------------------------------------------------------------
(* Claims about the refreshed client collection (SpecRefresh).             *)

RemoteClients == [i \in DOMAIN clients |-> ClientData(clients[i])]
Quiescent == loads = <<>> /\ timers = 0 /\ pc \in {"idle", "done"}

\* C28: when no refresh is scheduled and no load is under way, the clients
\* in memory and the cached clients are the clients of the remote store.
C28_RefreshedClientsEqualRemote ==
    Quiescent => (stateClients = RemoteClients /\ localClients = RemoteClients)

---------------------------------------------------------------------------
(* Claims about updateServe (SpecApp).                                     *)

ServeUpdated == pc = "done" /\ op = "App.updateServe" /\ result = Returned("true")

\* C29: when updateServe has returned true, the stored serve attempt holds
\* the case number, the case name, the notes and the status of the payload
\* updateServe built from the edited record.
C29_UpdateServeWritesCaseFields ==
    ServeUpdated
    => LET stored == Doc(serves, arg.docId)
           payload == arg.serveData
       IN /\ stored.notes = payload.notes
          /\ stored.status = payload.status
          /\ stored.case_number = payload.case_number
          /\ stored.case_name = payload.case_name

---------------------------------------------------------------------------
(* Claims about the notifications of createServe (SpecApp).                *)

ServeCreated ==
    /\ pc = "done" /\ op = "App.createServe"
    /\ result = Returned("true")
    /\ Has(serves, "new1")

\* C30: when createServe has returned true for a serve attempt created in
\* the remote store, the email function was called once.
C30_OneNotificationPerCreate ==
    ServeCreated => Len(outbox) = 1

====
